---- MODULE Spec2Model ----
(***************************************************************************)
(* babytrack: the seq-stamped record store (server/db.go), the family hub  *)
(* and the per-connection read/write tasks with their protocol handlers    *)
(* (server/ws.go), and the browser's SyncClient reliability loop.          *)
(*                                                                         *)
(* Every SQL statement, every channel send and every Hub call made under   *)
(* the hub lock is one atomic step; a handler is the sequence of its       *)
(* steps, so that handlers of different connections interleave exactly     *)
(* where the goroutines of the server can.                                 *)
(***************************************************************************)
EXTENDS Integers, Sequences, FiniteSets, TLC

(* ------------------------------ bounds -------------------------------- *)
\* capacity of a connection's outbound channel (256 in the program)
SendCap == 2
\* Spec: client frames read by the server, and connects accepted
MaxFrames == 1
MaxConnects == 3
\* SpecRun: entry frames read by the server, and sync_request frames after them
MaxRunFrames == 2
MaxRunSyncs == 1
\* SpecSync: local user actions, connects accepted, and the limit of a
\* sync_request (500 in the program)
MaxOps == 3
MaxSyncConnects == 3
SyncLimit == 1
\* SpecPage: entry frames read by the server before the browser connects
MaxPageFrames == 3
\* SpecClose: entry frames read by the server
MaxCloseFrames == 3
\* SpecAuth: the clock runs from 1 to MaxClock, and each browser makes at most
\* MaxRequests requests for /ws
MaxClock == 3
MaxRequests == 2
\* SpecConfig: at most MaxConfigFrames config frames are read
MaxConfigFrames == 2
\* SpecOpen: a file is opened at most MaxOpens times, and at most MaxStoreWrites
\* entries are written per family between the opens
MaxOpens == 3
MaxStoreWrites == 1
\* SpecOrder: at most MaxOrderFrames entry frames are read
MaxOrderFrames == 2
\* the default batch size of GetEntriesSinceCursor
DefaultLimit == 500
\* SyncClient.reconnectDelay, in ms, and SyncClient.maxReconnectAttempts
ReconnectDelay == 1000
MaxReconnectAttempts == 10
\* len(migrations) in migrate
NumMigrations == 2

(* ----------------------------- universe ------------------------------- *)
Families == {"F", "G"}
Sessions == {"s1", "s2", "s3", "s4"}
\* the sessions that take steps in every specification but SpecOrder, where s4, a
\* third browser of family F, takes part
Core == {"s1", "s2", "s3"}
Ids == {"x", "y"}
\* an entry's (ts, type, value) triple, as one opaque payload
Vals == {"a", "b"}

\* access_links.family_id of the token each connection presents
FamilyOf(s) == IF s = "s3" THEN "G" ELSE "F"
\* access_links.label of that token ("" for an unlabelled link)
LabelOf(s) == CASE s = "s1" -> "mum" [] s = "s2" -> "" [] s = "s3" -> "nan" [] OTHER -> "dad"

\* GetConfig's answer for a family without a configs row
DefaultConfig == "default"

(* ------------------------------ state --------------------------------- *)
VARIABLES
  familySeq,   \* families.seq, per family
  rows,        \* the entries table: id (PRIMARY KEY) -> row, or NoRow
  configs,     \* the configs table: family -> data, or DefaultConfig
  clock,       \* time.Now().UnixMilli() and the browsers' Date.now()
  hub,         \* Hub.families: family -> set of registered connections
  send,        \* Client.send of each connection (buffered channel)
  sendClosed,  \* whether close(c.send) has run
  rp,          \* readPump / handleWebSocket of each connection: pc and locals
  wp,          \* writePump of each connection
  commits,     \* history: per family, the seq values in the order assigned
  ackLog,      \* history: entry_ack frames enqueued
  bcastLog,    \* history: entry broadcasts enqueued
  frames,      \* history: number of client frames read
  connects,    \* history: number of connects accepted
  persisted,   \* history: the client mutations whose row write has run
  heal,        \* history: per client, how far it is in recovering from a dropped broadcast
  connected,   \* SyncClient.connected
  cursor,      \* SyncClient.cursor
  pending,     \* SyncClient.pendingEntries: insertion-ordered map id -> frame
  view,        \* the browser's IndexedDB entries, by syncId
  inbox,       \* frames a client has sent that the server has not read yet
  queued,      \* history: the frames ever put into a client's pending queue
  localOps,    \* history: number of local user actions of each client
  pages,       \* history: per client, the cursor it connected with, and the cursors of
               \* its sync_requests and the sync_responses it handled since
  links,       \* the access_links table, by token
  schema,      \* the database file: the schema_version rows, the migrations run on it in
               \* order, the rowid of its entries rows (kept where files are opened), the
               \* number of NewDB calls and whether the last one failed
  http,        \* history: the cookie and the response status of each browser's GET /ws
  storage,     \* each browser's localStorage: sync-cursor, sync-pending-queue, sync-pending-config
  retry,       \* SyncClient.reconnectAttempts and .connecting, whether a reconnect timer is
               \* pending, and the delays of the timers set since the last open
  scan         \* a GetEntriesSinceCursor call on a large family: the number of its rows
               \* above the cursor, the limit passed, and the entries and has_more returned

storeVars == <<familySeq, rows, configs, links, schema, clock>>
hubVars == <<hub, send, sendClosed>>
taskVars == <<rp, wp>>
histVars == <<commits, ackLog, bcastLog, frames, connects, persisted>>
browserVars == <<http, storage, retry>>
scanVars == <<scan>>
clientVars == <<connected, cursor, pending, view, inbox, queued, localOps, pages, browserVars,
               scanVars>>
vars == <<familySeq, rows, configs, clock, hub, send, sendClosed, rp, wp,
          commits, ackLog, bcastLog, frames, connects, persisted, heal,
          connected, cursor, pending, view, inbox, queued, localOps, pages,
          links, schema, http, storage, retry, scan>>

(* --------------------------- record store ----------------------------- *)
NoRow == [id |-> "-", family_id |-> "-", val |-> "-", deleted |-> FALSE,
          updated_at |-> 0, seq |-> 0]
NoFrame == [type |-> "-"]

\* a bump that returns the seq it found instead of the one it stored
NextSeqStale(f) == familySeq[f]

\* UPDATE families SET seq = seq + 1 WHERE id = ? RETURNING seq
NextSeq(f) == familySeq[f] + 1

\* an insert that leaves a row with the same id as it is
UpsertRowIgnore(e) ==
  IF rows[e.id] = NoRow THEN [rows EXCEPT ![e.id] = e] ELSE rows

\* INSERT INTO entries ... ON CONFLICT(id) DO UPDATE SET ts, type, value,
\* deleted, updated_at, seq (family_id is not among the updated columns)
UpsertRow(e) ==
  IF rows[e.id] = NoRow
  THEN [rows EXCEPT ![e.id] = e]
  ELSE [rows EXCEPT ![e.id] = [@ EXCEPT !.val = e.val, !.deleted = e.deleted,
                                        !.updated_at = e.updated_at, !.seq = e.seq]]

\* UPDATE entries SET deleted = 1, updated_at = ?, seq = ? WHERE id = ? AND family_id = ?
MarkDeletedRow(f, id, now, seq) ==
  IF rows[id] # NoRow /\ rows[id].family_id = f
  THEN [rows EXCEPT ![id] = [@ EXCEPT !.deleted = TRUE, !.updated_at = now, !.seq = seq]]
  ELSE rows

FamilyRows(f) == {rows[i] : i \in {j \in Ids : rows[j] # NoRow /\ rows[j].family_id = f}}

\* the orders in which a query may return the rows S under ORDER BY updated_at ASC
\* (rows with equal keys come in either order)
OrderedByUpdatedAt(S) ==
  {sq \in [1..Cardinality(S) -> S] :
     /\ \A i, j \in 1..Cardinality(S) : i # j => sq[i] # sq[j]
     /\ \A i, j \in 1..Cardinality(S) : i < j => sq[i].updated_at <= sq[j].updated_at}

\* the same under ORDER BY seq ASC
OrderedBySeq(S) ==
  {sq \in [1..Cardinality(S) -> S] :
     /\ \A i, j \in 1..Cardinality(S) : i # j => sq[i] # sq[j]
     /\ \A i, j \in 1..Cardinality(S) : i < j => sq[i].seq <= sq[j].seq}

\* GetEntries(familyID, sinceUpdatedAt): the possible result lists
GetEntries(f, since) == OrderedByUpdatedAt({r \in FamilyRows(f) : r.updated_at > since})

Min(a, b) == IF a < b THEN a ELSE b

\* a scan that fetches limit rows instead of limit + 1
GetEntriesNoExtra(f, cur, limit) ==
  LET lim == IF limit <= 0 THEN DefaultLimit ELSE limit
      all == OrderedBySeq({r \in FamilyRows(f) : r.seq > cur})
  IN {[entries |-> SubSeq(sq, 1, Min(Len(sq), lim)),
       has_more |-> Min(Len(sq), lim) > lim] : sq \in all}

\* GetEntriesSinceCursor(familyID, cursor, limit): the possible results,
\* each [entries, has_more]
GetEntriesSinceCursor(f, cur, limit) ==
  LET lim == IF limit <= 0 THEN DefaultLimit ELSE limit
      all == OrderedBySeq({r \in FamilyRows(f) : r.seq > cur})
  IN {[entries |-> SubSeq(sq, 1, Min(Min(Len(sq), lim + 1), lim)),
       has_more |-> Min(Len(sq), lim + 1) > lim] : sq \in all}

GetConfig(f) == configs[f]

\* an INSERT that leaves an existing configs row alone
SaveConfigIgnore(f, data) ==
  IF configs[f] = DefaultConfig THEN [configs EXCEPT ![f] = data] ELSE configs
\* SaveConfig: INSERT ... ON CONFLICT(family_id) DO UPDATE SET data = excluded.data
SaveConfig(f, data) == [configs EXCEPT ![f] = data]

(* -------------------------------- hub --------------------------------- *)
HubClients(h, f) == IF f \in DOMAIN h THEN h[f] ELSE {}

\* a presence frame that lists the empty labels too
PresenceMsgAll(clients) ==
  [type |-> "presence", members |-> {LabelOf(c) : c \in clients}]
\* broadcastPresenceLocked: the labels of the family's clients, `if c.label != ""`
PresenceMsg(clients) ==
  [type |-> "presence", members |-> {LabelOf(c) : c \in clients} \ {""}]

\* a presence broadcast that makes room in a full queue by dropping its head
BroadcastPresenceEvict(h, snd, f) ==
  [t \in Sessions |->
     IF t \in HubClients(h, f)
     THEN Append(IF Len(snd[t]) < SendCap THEN snd[t] ELSE Tail(snd[t]),
                 PresenceMsg(HubClients(h, f)))
     ELSE snd[t]]

\* broadcastPresenceLocked: select { case c.send <- msg: default: } for every client
BroadcastPresence(h, snd, f) ==
  [t \in Sessions |->
     IF t \in HubClients(h, f) /\ Len(snd[t]) < SendCap
     THEN Append(snd[t], PresenceMsg(HubClients(h, f)))
     ELSE snd[t]]

\* the loop of Hub.Broadcast over the family's clients, in map order
RECURSIVE BroadcastLoop(_, _, _, _)
BroadcastLoop(todo, snd, msg, exclude) ==
  IF todo = {} THEN snd
  ELSE LET c == CHOOSE c \in todo : TRUE
       IN BroadcastLoop(todo \ {c},
                        IF c # exclude /\ Len(snd[c]) < SendCap
                        THEN [snd EXCEPT ![c] = Append(@, msg)]
                        ELSE snd,
                        msg, exclude)

\* a Broadcast whose loop does not skip the excluded client
BroadcastToAll(f, msg, exclude) == BroadcastLoop(HubClients(hub, f), send, msg, "-")

\* Hub.Broadcast(familyID, msg, exclude)
Broadcast(f, msg, exclude) == BroadcastLoop(HubClients(hub, f), send, msg, exclude)

\* Hub.Register: the families map after inserting c
Registered(c) ==
  LET f == FamilyOf(c)
  IN [g \in DOMAIN hub \cup {f} |-> IF g = f THEN HubClients(hub, f) \cup {c} ELSE hub[g]]

\* an Unregister that leaves the connection in the families map
UnregisteredKeep(c) == hub

\* Hub.Unregister: the families map after deleting c (an emptied set's key is deleted)
Unregistered(c) ==
  LET f == FamilyOf(c)
      left == HubClients(hub, f) \ {c}
  IN IF f \notin DOMAIN hub THEN hub
     ELSE IF left = {} THEN [g \in DOMAIN hub \ {f} |-> hub[g]]
     ELSE [hub EXCEPT ![f] = left]

(* ------------------------------ frames -------------------------------- *)
ClientEntry == [id : Ids, family_id : Families \cup {"-"}, val : Vals, deleted : BOOLEAN]
UpsertFrames == [type : {"entry"}, action : {"add", "update"}, entry : ClientEntry]
DeleteFrames == [type : {"entry"}, action : {"delete"}, id : Ids]
SyncFrames == [type : {"sync_request"}, cursor : 0..3, limit : 0..2]

Idle == [pc |-> "read", action |-> "-", e |-> NoRow, out |-> NoFrame]
Off == [pc |-> "off", action |-> "-", e |-> NoRow, out |-> NoFrame]

\* an ack that carries the seq the family had before the bump
AckMsgStale(e) == [type |-> "entry_ack", id |-> e.id, seq |-> e.seq - 1]

AckMsg(e) == [type |-> "entry_ack", id |-> e.id, seq |-> e.seq]

EntryMsg(action, e) ==
  IF action = "delete"
  THEN [type |-> "entry", action |-> "delete", id |-> e.id, seq |-> e.seq]
  ELSE [type |-> "entry", action |-> action, entry |-> e]

\* what a client frame asks for: its action, id, payload and deleted flag
Mutation(action, id, val, deleted) ==
  [action |-> action, id |-> id, val |-> val, deleted |-> deleted]
MutationOf(msg) ==
  IF msg.action = "delete" THEN Mutation("delete", msg.id, "-", TRUE)
  ELSE Mutation(msg.action, msg.entry.id, msg.entry.val, msg.entry.deleted)

(* --------------------------- access links ----------------------------- *)
\* sql.NullInt64: the expires_at column of a link that never expires
NullInt64 == [Valid |-> FALSE, Int64 |-> 0]
\* no row for the token (sql.ErrNoRows)
NoLink == [token |-> "-", family_id |-> "-", label |-> "-", expires_at |-> NullInt64]
\* the row CreateAccessLink inserts for the token a browser holds in its cookie
LinkOf(t, exp) ==
  [token |-> t, family_id |-> FamilyOf(t), label |-> LabelOf(t), expires_at |-> exp]
\* a lookup that never looks at expires_at
ValidateAccessLinkNoExpiry(t, now) == links[t]
\* ValidateAccessLink: the row of the token, NoLink when there is none or now is
\* past its expires_at
ValidateAccessLink(t, now) ==
  IF links[t] = NoLink THEN NoLink
  ELSE IF links[t].expires_at.Valid /\ now > links[t].expires_at.Int64 THEN NoLink
  ELSE links[t]
\* the request carries no client_session cookie
NoCookie == "none"

(* ------------------------------ Init ---------------------------------- *)
\* the database file after migrate has run both migrations on an empty file
Migrated == [versions |-> {1, 2}, ran |-> <<1, 2>>, rowid |-> [i \in Ids |-> 0],
             opens |-> 1, err |-> FALSE]
NoStorage == [cursor |-> 0, queue |-> <<>>, config |-> NoFrame]
NoRetry == [attempts |-> 0, connecting |-> FALSE, armed |-> FALSE, timers |-> <<>>]
\* no call made
NoScan == [n |-> 0, limit |-> 0, entries |-> -1, has_more |-> FALSE]
\* a browser that has never loaded the page
InitBrowser ==
  /\ http = [s \in Sessions |-> <<>>]
  /\ storage = [s \in Sessions |-> NoStorage]
  /\ retry = [s \in Sessions |-> NoRetry]
  /\ scan = NoScan
NoLocal == [val |-> "-", deleted |-> FALSE, updated |-> 0]
NoPages == [c0 |-> 0, reqs |-> <<>>, got |-> <<>>]

InitStore ==
  /\ familySeq = [f \in Families |-> 0]
  /\ rows = [i \in Ids |-> NoRow]
  /\ configs = [f \in Families |-> DefaultConfig]
  /\ links = [t \in Sessions |-> LinkOf(t, NullInt64)]
  /\ schema = Migrated
  /\ clock = 1
  /\ commits = [f \in Families |-> <<>>]
  /\ ackLog = {}
  /\ bcastLog = {}
  /\ frames = 0
  /\ persisted = {}
  /\ heal = [s \in Sessions |-> "none"]

InitClients ==
  /\ connected = [s \in Sessions |-> FALSE]
  /\ cursor = [s \in Sessions |-> 0]
  /\ pending = [s \in Sessions |-> <<>>]
  /\ view = [s \in Sessions |-> [i \in Ids |-> NoLocal]]
  /\ inbox = [s \in Sessions |-> <<>>]
  /\ queued = {}
  /\ localOps = [s \in Sessions |-> 0]
  /\ pages = [s \in Sessions |-> NoPages]
  /\ InitBrowser

\* the server after NewDB and NewHub, and browsers that have not connected
Init ==
  /\ InitStore
  /\ InitClients
  /\ hub = <<>>
  /\ send = [s \in Sessions |-> <<>>]
  /\ sendClosed = [s \in Sessions |-> FALSE]
  /\ rp = [s \in Sessions |-> Off]
  /\ wp = [s \in Sessions |-> "off"]
  /\ connects = 0

(* ----------------------- connection set-up ---------------------------- *)
\* handleWebSocket up to and including hub.Register(client)
Connect(s) ==
  /\ rp[s].pc = "off"
  /\ wp[s] \in {"off", "done"}
  /\ connects' = connects + 1
  /\ hub' = Registered(s)
  /\ send' = BroadcastPresence(hub', [send EXCEPT ![s] = <<>>], FamilyOf(s))
  /\ sendClosed' = [sendClosed EXCEPT ![s] = FALSE]
  /\ rp' = [rp EXCEPT ![s] = [Off EXCEPT !.pc = "init_query"]]
  /\ wp' = [wp EXCEPT ![s] = "off"]
  /\ UNCHANGED <<storeVars, commits, ackLog, bcastLog, frames, persisted>>

\* sendInit: the two queries
SendInitQuery(s) ==
  /\ rp[s].pc = "init_query"
  /\ \E es \in GetEntries(FamilyOf(s), 0) :
       rp' = [rp EXCEPT ![s] = [Off EXCEPT !.pc = "init_send",
                !.out = [type |-> "init", entries |-> es, config |-> GetConfig(FamilyOf(s))]]]
  /\ UNCHANGED <<storeVars, hubVars, wp, histVars, heal, clientVars>>

\* sendInit: c.send <- msg, then go writePump / go readPump
SendInitEnqueue(s) ==
  /\ rp[s].pc = "init_send"
  /\ Len(send[s]) < SendCap
  /\ send' = [send EXCEPT ![s] = Append(@, rp[s].out)]
  /\ rp' = [rp EXCEPT ![s] = Idle]
  /\ wp' = [wp EXCEPT ![s] = "run"]
  /\ UNCHANGED <<storeVars, hub, sendClosed, histVars, heal, clientVars>>

(* ----------------------------- writePump ------------------------------ *)
\* for msg := range c.send { conn.WriteMessage(msg) }
WritePump(s) ==
  /\ wp[s] = "run"
  /\ send[s] # <<>>
  /\ send' = [send EXCEPT ![s] = Tail(@)]
  /\ UNCHANGED <<storeVars, hub, sendClosed, taskVars, histVars>>

\* the range loop ends when the channel is closed and drained
WritePumpExit(s) ==
  /\ wp[s] = "run"
  /\ send[s] = <<>>
  /\ sendClosed[s]
  /\ wp' = [wp EXCEPT ![s] = "done"]
  /\ UNCHANGED <<storeVars, hubVars, rp, histVars, heal, clientVars>>

(* ------------------------------ readPump ------------------------------ *)
\* ReadMessage fails: the deferred hub.Unregister(c) and conn.Close()
ReadError(s) ==
  /\ rp[s].pc = "read"
  /\ hub' = Unregistered(s)
  /\ send' = IF FamilyOf(s) \in DOMAIN hub'
             THEN BroadcastPresence(hub', send, FamilyOf(s))
             ELSE send
  /\ sendClosed' = [sendClosed EXCEPT ![s] = TRUE]
  /\ rp' = [rp EXCEPT ![s] = Off]
  /\ UNCHANGED <<storeVars, wp, histVars>>

\* readPump, case "ping": c.send <- pong
ReadPing(s) ==
  /\ rp[s].pc = "read"
  /\ Len(send[s]) < SendCap
  /\ send' = [send EXCEPT ![s] = Append(@, [type |-> "pong"])]
  /\ frames' = frames + 1
  /\ UNCHANGED <<storeVars, hub, sendClosed, taskVars, commits, ackLog, bcastLog,
                 connects, persisted>>

\* handleEntryMessage, add/update: decode, force the family, and the first
\* statement of UpsertEntry
ReadEntryUpsert(s, fr) ==
  /\ rp[s].pc = "read"
  /\ fr.type = "entry"
  /\ fr.action \in {"add", "update"}
  /\ frames' = frames + 1
  /\ LET f == FamilyOf(s) IN
       /\ familySeq' = [familySeq EXCEPT ![f] = NextSeq(f)]
       /\ commits' = [commits EXCEPT ![f] = Append(@, NextSeq(f))]
       /\ rp' = [rp EXCEPT ![s] = [pc |-> "upsert_write", action |-> fr.action,
                   e |-> [id |-> fr.entry.id, family_id |-> f, val |-> fr.entry.val,
                          deleted |-> fr.entry.deleted, updated_at |-> clock,
                          seq |-> NextSeq(f)],
                   out |-> NoFrame]]
  /\ UNCHANGED <<rows, configs, links, schema, clock, hubVars, wp, ackLog, bcastLog,
                 connects, persisted>>

\* a row write ends the recovery of the clients it has not reached
Staled(f) ==
  [c \in Sessions |->
     IF FamilyOf(c) # f THEN heal[c]
     ELSE CASE heal[c] = "asked" -> "dropped"
            [] heal[c] = "synced" -> "none"
            [] OTHER -> heal[c]]

\* the second statement of UpsertEntry
UpsertWrite(s) ==
  /\ rp[s].pc = "upsert_write"
  /\ rows' = UpsertRow(rp[s].e)
  /\ persisted' = persisted \cup
       {[from |-> s, mut |-> Mutation(rp[s].action, rp[s].e.id, rp[s].e.val, rp[s].e.deleted)]}
  /\ heal' = Staled(FamilyOf(s))
  /\ rp' = [rp EXCEPT ![s].pc = "ack", ![s].out = AckMsg(rp[s].e)]
  /\ UNCHANGED <<familySeq, configs, links, schema, clock, hubVars, wp, commits, ackLog, bcastLog,
                 frames, connects, clientVars>>

\* handleEntryMessage, delete: the first statement of DeleteEntry
ReadEntryDelete(s, fr) ==
  /\ rp[s].pc = "read"
  /\ fr.type = "entry"
  /\ fr.action = "delete"
  /\ frames' = frames + 1
  /\ LET f == FamilyOf(s) IN
       /\ familySeq' = [familySeq EXCEPT ![f] = NextSeq(f)]
       /\ commits' = [commits EXCEPT ![f] = Append(@, NextSeq(f))]
       /\ rp' = [rp EXCEPT ![s] = [pc |-> "delete_write", action |-> "delete",
                   e |-> [NoRow EXCEPT !.id = fr.id, !.family_id = f, !.deleted = TRUE,
                                       !.updated_at = clock, !.seq = NextSeq(f)],
                   out |-> NoFrame]]
  /\ UNCHANGED <<rows, configs, links, schema, clock, hubVars, wp, ackLog, bcastLog,
                 connects, persisted>>

\* the second statement of DeleteEntry
DeleteWrite(s) ==
  /\ rp[s].pc = "delete_write"
  /\ LET e == rp[s].e IN
       /\ rows' = MarkDeletedRow(e.family_id, e.id, e.updated_at, e.seq)
       /\ persisted' = persisted \cup {[from |-> s, mut |-> Mutation("delete", e.id, "-", TRUE)]}
       /\ rp' = [rp EXCEPT ![s].pc = "ack", ![s].out = AckMsg(e)]
  /\ heal' = Staled(FamilyOf(s))
  /\ UNCHANGED <<familySeq, configs, links, schema, clock, hubVars, wp, commits, ackLog, bcastLog,
                 frames, connects, clientVars>>

\* c.send <- ack
SendAck(s) ==
  /\ rp[s].pc = "ack"
  /\ Len(send[s]) < SendCap
  /\ send' = [send EXCEPT ![s] = Append(@, rp[s].out)]
  /\ ackLog' = ackLog \cup {[to |-> s, id |-> rp[s].out.id, seq |-> rp[s].out.seq]}
  /\ rp' = [rp EXCEPT ![s].pc = "bcast", ![s].out = EntryMsg(rp[s].action, rp[s].e)]
  /\ UNCHANGED <<storeVars, hub, sendClosed, wp, commits, bcastLog,
                 frames, connects, persisted, heal, clientVars>>

\* s.hub.Broadcast(c.familyID, broadcast, c)
BroadcastEntry(s) ==
  /\ rp[s].pc = "bcast"
  /\ send' = Broadcast(FamilyOf(s), rp[s].out, s)
  /\ bcastLog' = bcastLog \cup
       {[to |-> t, from |-> s, id |-> rp[s].e.id, seq |-> rp[s].e.seq] :
          t \in {u \in Sessions : send'[u] # send[u]}}
  /\ heal' = [t \in Sessions |->
                IF t \in HubClients(hub, FamilyOf(s)) \ {s} /\ send'[t] = send[t]
                THEN "dropped" ELSE heal[t]]
  /\ rp' = [rp EXCEPT ![s] = Idle]
  /\ UNCHANGED <<storeVars, hub, sendClosed, wp, commits, ackLog,
                 frames, connects, persisted, clientVars>>

\* handleSyncMessage for a frame without entries: the cursor query
HandleSyncQuery(s, fr) ==
  /\ rp[s].pc = "read"
  /\ fr.type = "sync_request"
  /\ frames' = frames + 1
  /\ \E r \in GetEntriesSinceCursor(FamilyOf(s), fr.cursor, fr.limit) :
       rp' = [rp EXCEPT ![s] = [Idle EXCEPT !.pc = "resp_send",
                !.out = [type |-> "sync_response", entries |-> r.entries,
                         cursor |-> IF Len(r.entries) > 0
                                    THEN r.entries[Len(r.entries)].seq ELSE fr.cursor,
                         has_more |-> r.has_more]]]
  /\ UNCHANGED <<storeVars, hubVars, wp, commits, ackLog, bcastLog,
                 connects, persisted>>

\* handleSyncMessage: c.send <- resp
SendSyncResponse(s) ==
  /\ rp[s].pc = "resp_send"
  /\ Len(send[s]) < SendCap
  /\ send' = [send EXCEPT ![s] = Append(@, rp[s].out)]
  /\ rp' = [rp EXCEPT ![s] = Idle]
  /\ UNCHANGED <<storeVars, hub, sendClosed, wp, histVars, heal, clientVars>>

(* ------------- Spec: the server under arbitrary clients --------------- *)
\* a client whose behaviour is not constrained: it connects, sends any frame,
\* reads what the server writes, and goes away
AnyConnect(s) ==
  /\ connects < MaxConnects
  /\ Connect(s)
  /\ UNCHANGED <<heal, clientVars>>

AnyRead(s) == WritePump(s) /\ UNCHANGED <<heal, clientVars>>

AnyClose(s) == ReadError(s) /\ UNCHANGED <<heal, clientVars>>

AnyUpsert(s) ==
  /\ frames < MaxFrames
  /\ \E fr \in UpsertFrames : ReadEntryUpsert(s, fr)
  /\ UNCHANGED <<heal, clientVars>>

AnyDelete(s) ==
  /\ frames < MaxFrames
  /\ \E fr \in DeleteFrames : ReadEntryDelete(s, fr)
  /\ UNCHANGED <<heal, clientVars>>

AnySync(s) ==
  /\ frames < MaxFrames
  /\ \E fr \in SyncFrames : HandleSyncQuery(s, fr)
  /\ UNCHANGED <<heal, clientVars>>

AnyPing(s) ==
  /\ frames < MaxFrames
  /\ ReadPing(s)
  /\ UNCHANGED <<heal, clientVars>>

Next ==
  \E s \in Core :
    \/ AnyConnect(s)
    \/ SendInitQuery(s)
    \/ SendInitEnqueue(s)
    \/ AnyRead(s)
    \/ WritePumpExit(s)
    \/ AnyClose(s)
    \/ AnyUpsert(s)
    \/ UpsertWrite(s)
    \/ AnyDelete(s)
    \/ DeleteWrite(s)
    \/ SendAck(s)
    \/ BroadcastEntry(s)
    \/ AnySync(s)
    \/ SendSyncResponse(s)
    \/ AnyPing(s)

Spec == Init /\ [][Next]_vars

\* SpecAccept: the same steps, with every goroutine that can take a step
\* scheduled and every client reading what is written to it
FairAccept ==
  \A s \in Sessions :
    /\ WF_vars(SendInitQuery(s))
    /\ WF_vars(SendInitEnqueue(s))
    /\ WF_vars(AnyRead(s))
    /\ WF_vars(UpsertWrite(s))
    /\ WF_vars(DeleteWrite(s))
    /\ WF_vars(SendAck(s))
    /\ WF_vars(BroadcastEntry(s))
    /\ WF_vars(SendSyncResponse(s))

SpecAccept == Init /\ [][Next]_vars /\ FairAccept

(* ------- SpecRun: concurrent handlers of established connections ------- *)
\* every connection has been accepted and has written its init frame
InitRun ==
  /\ InitStore
  /\ InitClients
  /\ hub = [f \in Families |-> {s \in Core : FamilyOf(s) = f}]
  /\ send = [s \in Sessions |-> <<>>]
  /\ sendClosed = [s \in Sessions |-> FALSE]
  /\ rp = [s \in Sessions |-> IF s \in Core THEN Idle ELSE Off]
  /\ wp = [s \in Sessions |-> IF s \in Core THEN "run" ELSE "off"]
  /\ connects = Cardinality(Core)

RunUpsert(s) ==
  /\ frames < MaxRunFrames
  /\ \E fr \in UpsertFrames : ReadEntryUpsert(s, fr)
  /\ UNCHANGED <<heal, clientVars>>

RunDelete(s) ==
  /\ frames < MaxRunFrames
  /\ \E fr \in DeleteFrames : ReadEntryDelete(s, fr)
  /\ UNCHANGED <<heal, clientVars>>

RunSync(s) ==
  /\ frames >= MaxRunFrames
  /\ frames < MaxRunFrames + MaxRunSyncs
  /\ \E fr \in SyncFrames : HandleSyncQuery(s, fr)
  /\ UNCHANGED <<heal, clientVars>>

NextRun ==
  \E s \in Core :
    \/ AnyRead(s)
    \/ RunUpsert(s)
    \/ UpsertWrite(s)
    \/ RunDelete(s)
    \/ DeleteWrite(s)
    \/ SendAck(s)
    \/ BroadcastEntry(s)
    \/ RunSync(s)
    \/ SendSyncResponse(s)

SpecRun == InitRun /\ [][NextRun]_vars

(* ---------------- the browser: SyncClient and its callbacks ----------- *)
\* SpecSync: the browsers, the one the user works with, and the ids it creates
SyncSessions == {s \in Core : FamilyOf(s) = "F"}
Writers == {"s1"}
SyncIds == {"x"}

\* a comparison that never takes the new value
MaxKeep(a, b) == a
Max(a, b) == IF a > b THEN a ELSE b

PendingIds(q) == {q[i].id : i \in 1..Len(q)}

\* pendingEntries.set(id, {msg}): a Map keeps the position of a key it has
PendingSet(q, id, msg) ==
  IF id \in PendingIds(q)
  THEN [i \in 1..Len(q) |-> IF q[i].id = id THEN [id |-> id, msg |-> msg] ELSE q[i]]
  ELSE Append(q, [id |-> id, msg |-> msg])

\* pendingEntries.delete(id), for every id of ids
PendingDelete(q, ids) == SelectSeq(q, LAMBDA p : p.id \notin ids)

\* the frames flushPendingQueue sends, in the Map's order
PendingMsgs(q) == [i \in 1..Len(q) |-> q[i].msg]

\* the body of sendEntry that builds the frame
EntryFrame(action, id, val, deleted) ==
  IF action = "delete"
  THEN [type |-> "entry", action |-> "delete", id |-> id]
  ELSE [type |-> "entry", action |-> action,
        entry |-> [id |-> id, family_id |-> "-", val |-> val, deleted |-> deleted]]

\* sendSyncRequest's frame
SyncRequest(cur) == [type |-> "sync_request", cursor |-> cur, limit |-> SyncLimit]

\* mergeRemoteEntries, for one remote entry
MergeRemote(v, e) ==
  IF v[e.id] # NoLocal
  THEN IF e.updated_at > v[e.id].updated
       THEN [v EXCEPT ![e.id] = [val |-> e.val, deleted |-> e.deleted, updated |-> e.updated_at]]
       ELSE v
  ELSE [v EXCEPT ![e.id] = [val |-> e.val, deleted |-> e.deleted, updated |-> e.updated_at]]

\* mergeRemoteEntries(remoteEntries)
RECURSIVE MergeRemoteEntries(_, _)
MergeRemoteEntries(v, es) ==
  IF es = <<>> THEN v ELSE MergeRemoteEntries(MergeRemote(v, Head(es)), Tail(es))

\* handleRemoteEntry(action, entry) at local time now
HandleRemoteEntry(v, action, e, now) ==
  IF action = "delete"
  THEN IF v[e.id] # NoLocal /\ ~v[e.id].deleted
       THEN [v EXCEPT ![e.id].deleted = TRUE, ![e.id].updated = now]
       ELSE v
  ELSE MergeRemote(v, e)

\* the onEntry calls of handleSyncResponse, entry by entry
RECURSIVE ApplySyncEntries(_, _, _)
ApplySyncEntries(v, es, now) ==
  IF es = <<>> THEN v
  ELSE ApplySyncEntries(
         HandleRemoteEntry(v, IF Head(es).deleted THEN "delete" ELSE "add", Head(es), now),
         Tail(es), now)

\* the highest seq among entries, or cur when none is higher
RECURSIVE MaxSeq(_, _)
MaxSeq(cur, es) == IF es = <<>> THEN cur ELSE MaxSeq(Max(cur, Head(es).seq), Tail(es))

EntryIds(es) == {es[i].id : i \in 1..Len(es)}

(* --------------- SpecSync: browsers against the server ---------------- *)
\* handleMessage, case 'init': handleInit, then onInit's mergeRemoteEntries
DeliverInit(s) ==
  /\ connected[s]
  /\ WritePump(s)
  /\ LET msg == Head(send[s])
         left == PendingDelete(pending[s], EntryIds(msg.entries))
     IN /\ msg.type = "init"
        /\ cursor' = [cursor EXCEPT ![s] = MaxSeq(@, msg.entries)]
        /\ pending' = [pending EXCEPT ![s] = left]
        /\ view' = [view EXCEPT ![s] = MergeRemoteEntries(@, msg.entries)]
        /\ inbox' = [inbox EXCEPT ![s] = @ \o PendingMsgs(left)]
        /\ storage' = [storage EXCEPT ![s] =
                         IF msg.entries = <<>> THEN @
                         ELSE [@ EXCEPT !.cursor = MaxSeq(cursor[s], msg.entries),
                                         !.queue = left]]
  /\ UNCHANGED <<heal, connected, queued, localOps, pages, http, retry, scan>>

\* handleMessage, case 'entry': handleEntry, then onEntry's handleRemoteEntry
DeliverEntry(s) ==
  /\ connected[s]
  /\ WritePump(s)
  /\ LET msg == Head(send[s])
     IN /\ msg.type = "entry"
        /\ IF msg.action = "delete"
           THEN /\ cursor' = [cursor EXCEPT ![s] = Max(@, msg.seq)]
                /\ view' = [view EXCEPT ![s] =
                              HandleRemoteEntry(@, "delete", [id |-> msg.id], clock)]
           ELSE /\ cursor' = [cursor EXCEPT ![s] = Max(@, msg.entry.seq)]
                /\ view' = [view EXCEPT ![s] =
                              HandleRemoteEntry(@, msg.action, msg.entry, clock)]
        /\ storage' = [storage EXCEPT ![s].cursor =
                         IF cursor'[s] > cursor[s] THEN cursor'[s] ELSE @]
  /\ UNCHANGED <<heal, connected, pending, inbox, queued, localOps, pages, http, retry, scan>>

\* handleMessage, case 'entry_ack': handleEntryAck
DeliverAck(s) ==
  /\ connected[s]
  /\ WritePump(s)
  /\ LET msg == Head(send[s])
     IN /\ msg.type = "entry_ack"
        /\ pending' = [pending EXCEPT ![s] = PendingDelete(@, {msg.id})]
        /\ cursor' = [cursor EXCEPT ![s] = Max(@, msg.seq)]
        /\ storage' = [storage EXCEPT
                         ![s].queue = IF msg.id \in PendingIds(pending[s])
                                      THEN PendingDelete(pending[s], {msg.id}) ELSE @,
                         ![s].cursor = IF msg.seq > cursor[s] THEN msg.seq ELSE @]
  /\ UNCHANGED <<heal, connected, view, inbox, queued, localOps, pages, http, retry, scan>>

\* handleMessage, case 'sync_response': handleSyncResponse
DeliverSyncResponse(s) ==
  /\ connected[s]
  /\ WritePump(s)
  /\ LET msg == Head(send[s])
         left == PendingDelete(pending[s], EntryIds(msg.entries))
         cur == Max(cursor[s], msg.cursor)
     IN /\ msg.type = "sync_response"
        /\ view' = [view EXCEPT ![s] = ApplySyncEntries(@, msg.entries, clock)]
        /\ pending' = [pending EXCEPT ![s] = left]
        /\ cursor' = [cursor EXCEPT ![s] = cur]
        /\ inbox' = [inbox EXCEPT ![s] =
                       IF msg.has_more THEN Append(@, SyncRequest(cur))
                       ELSE @ \o PendingMsgs(left)]
        /\ heal' = [heal EXCEPT ![s] =
                      IF ~msg.has_more /\ @ = "asked" THEN "synced" ELSE @]
        /\ pages' = [pages EXCEPT ![s].got = Append(@, msg),
                                  ![s].reqs = IF msg.has_more THEN Append(@, cur) ELSE @]
        /\ storage' = [storage EXCEPT
                         ![s].cursor = IF msg.cursor > cursor[s] THEN msg.cursor ELSE @,
                         ![s].queue = left]
  /\ UNCHANGED <<connected, queued, localOps, http, retry, scan>>

\* handleMessage, case 'presence'
DeliverPresence(s) ==
  /\ connected[s]
  /\ WritePump(s)
  /\ Head(send[s]).type = "presence"
  /\ UNCHANGED <<heal, clientVars>>

\* writePump writes to a connection whose browser has gone
WriteLost(s) ==
  /\ ~connected[s]
  /\ WritePump(s)
  /\ UNCHANGED <<heal, clientVars>>

\* connect: the server accepts, and onopen sends the sync_request
SyncConnect(s) ==
  /\ connects < MaxSyncConnects
  /\ ~connected[s]
  /\ Connect(s)
  /\ connected' = [connected EXCEPT ![s] = TRUE]
  /\ inbox' = [inbox EXCEPT ![s] = <<SyncRequest(cursor[s])>>]
  /\ heal' = [heal EXCEPT ![s] = IF @ = "dropped" THEN "asked" ELSE @]
  /\ pages' = [pages EXCEPT ![s] = [c0 |-> cursor[s], reqs |-> <<cursor[s]>>, got |-> <<>>]]
  /\ UNCHANGED <<cursor, pending, view, queued, localOps, browserVars, scanVars>>

\* the connection breaks: readPump ends, and onclose runs in the browser
SyncDisconnect(s) ==
  /\ connected[s]
  /\ ReadError(s)
  /\ connected' = [connected EXCEPT ![s] = FALSE]
  /\ inbox' = [inbox EXCEPT ![s] = <<>>]
  /\ UNCHANGED <<heal, cursor, pending, view, queued, localOps, pages, browserVars, scanVars>>

\* readPump reads the browser's next frame
SyncReadUpsert(s) ==
  /\ inbox[s] # <<>>
  /\ ReadEntryUpsert(s, Head(inbox[s]))
  /\ inbox' = [inbox EXCEPT ![s] = Tail(@)]
  /\ UNCHANGED <<heal, connected, cursor, pending, view, queued, localOps, pages, browserVars, scanVars>>

SyncReadDelete(s) ==
  /\ inbox[s] # <<>>
  /\ ReadEntryDelete(s, Head(inbox[s]))
  /\ inbox' = [inbox EXCEPT ![s] = Tail(@)]
  /\ UNCHANGED <<heal, connected, cursor, pending, view, queued, localOps, pages, browserVars, scanVars>>

SyncReadSync(s) ==
  /\ inbox[s] # <<>>
  /\ HandleSyncQuery(s, Head(inbox[s]))
  /\ inbox' = [inbox EXCEPT ![s] = Tail(@)]
  /\ UNCHANGED <<heal, connected, cursor, pending, view, queued, localOps, pages, browserVars, scanVars>>

\* sendEntry(action, entry)
SendEntry(c, action, id, val, deleted) ==
  LET msg == EntryFrame(action, id, val, deleted)
  IN /\ pending' = [pending EXCEPT ![c] = PendingSet(@, id, msg)]
     /\ storage' = [storage EXCEPT ![c].queue = PendingSet(pending[c], id, msg)]
     /\ inbox' = [inbox EXCEPT ![c] = IF connected[c] THEN Append(@, msg) ELSE @]
     /\ queued' = {q \in queued : ~(q.from = c /\ q.mut.id = id)}
                    \cup {[from |-> c, mut |-> MutationOf(msg)]}

\* addEntry(type, value, ts) with a fresh syncId
LocalAdd(c, id, val) ==
  /\ c \in Writers
  /\ localOps[c] < MaxOps
  /\ clock' = clock + 1
  /\ rows[id] = NoRow
  /\ \A d \in Sessions : view[d][id] = NoLocal
  /\ view' = [view EXCEPT ![c][id] = [val |-> val, deleted |-> FALSE, updated |-> clock]]
  /\ localOps' = [localOps EXCEPT ![c] = @ + 1]
  /\ IF connected[c]
     THEN SendEntry(c, "add", id, val, FALSE)
     ELSE UNCHANGED <<pending, inbox, queued, storage>>
  /\ UNCHANGED <<familySeq, rows, configs, links, schema, hubVars, taskVars, histVars, heal, connected, cursor, pages, http, retry, scan>>

\* toggleEntryDeleted(entryId, shouldDelete)
LocalToggle(c, id) ==
  /\ c \in Writers
  /\ localOps[c] < MaxOps
  /\ clock' = clock + 1
  /\ view[c][id] # NoLocal
  /\ view' = [view EXCEPT ![c][id].deleted = ~@, ![c][id].updated = clock]
  /\ localOps' = [localOps EXCEPT ![c] = @ + 1]
  /\ IF connected[c]
     THEN IF ~view[c][id].deleted
          THEN SendEntry(c, "delete", id, "-", TRUE)
          ELSE SendEntry(c, "update", id, view[c][id].val, FALSE)
     ELSE UNCHANGED <<pending, inbox, queued, storage>>
  /\ UNCHANGED <<familySeq, rows, configs, links, schema, hubVars, taskVars, histVars, heal, connected, cursor, pages, http, retry, scan>>

\* two browsers of one family, connected and in sync with an empty store
InitSync ==
  /\ InitStore
  /\ connected = [s \in Sessions |-> s \in SyncSessions]
  /\ cursor = [s \in Sessions |-> 0]
  /\ pending = [s \in Sessions |-> <<>>]
  /\ view = [s \in Sessions |-> [i \in Ids |-> NoLocal]]
  /\ inbox = [s \in Sessions |-> <<>>]
  /\ queued = {}
  /\ localOps = [s \in Sessions |-> 0]
  /\ pages = [s \in Sessions |-> NoPages]
  /\ InitBrowser
  /\ hub = [f \in {"F"} |-> SyncSessions]
  /\ send = [s \in Sessions |-> <<>>]
  /\ sendClosed = [s \in Sessions |-> FALSE]
  /\ rp = [s \in Sessions |-> IF s \in SyncSessions THEN Idle ELSE Off]
  /\ wp = [s \in Sessions |-> IF s \in SyncSessions THEN "run" ELSE "off"]
  /\ connects = Cardinality(SyncSessions)

NextSync ==
  \E s \in SyncSessions :
       \/ SyncConnect(s)
       \/ SendInitQuery(s)
       \/ SendInitEnqueue(s)
       \/ DeliverInit(s)
       \/ DeliverEntry(s)
       \/ DeliverAck(s)
       \/ DeliverSyncResponse(s)
       \/ DeliverPresence(s)
       \/ WriteLost(s)
       \/ WritePumpExit(s)
       \/ SyncDisconnect(s)
       \/ SyncReadUpsert(s)
       \/ UpsertWrite(s)
       \/ SyncReadDelete(s)
       \/ DeleteWrite(s)
       \/ SendAck(s)
       \/ BroadcastEntry(s)
       \/ SyncReadSync(s)
       \/ SendSyncResponse(s)
       \/ \E i \in SyncIds : LocalAdd(s, i, "a") \/ LocalToggle(s, i)

SpecSync == InitSync /\ [][NextSync]_vars

(* ------- SpecPage: a browser that connects to a populated store ------- *)
\* two connections of different families write; a browser of family F that
\* has never connected then connects and pages through the store
PageWriters == {"s1", "s3"}
Pager == "s2"
PageAdds == {fr \in UpsertFrames :
               fr.action = "add" /\ fr.entry.family_id = "-" /\ fr.entry.val = "a"}

InitPage ==
  /\ InitStore
  /\ InitClients
  /\ hub = [f \in Families |-> {s \in PageWriters : FamilyOf(s) = f}]
  /\ send = [s \in Sessions |-> <<>>]
  /\ sendClosed = [s \in Sessions |-> FALSE]
  /\ rp = [s \in Sessions |-> IF s \in PageWriters THEN Idle ELSE Off]
  /\ wp = [s \in Sessions |-> IF s \in PageWriters THEN "run" ELSE "off"]
  /\ connects = Cardinality(PageWriters)

PageRead(s) ==
  /\ s \in PageWriters
  /\ AnyRead(s)

PageUpsert(s) ==
  /\ s \in PageWriters
  /\ ~connected[Pager]
  /\ frames < MaxPageFrames
  /\ \E fr \in PageAdds : ReadEntryUpsert(s, fr)
  /\ UNCHANGED <<heal, clientVars>>

PageDelete(s) ==
  /\ s \in PageWriters
  /\ ~connected[Pager]
  /\ frames < MaxPageFrames
  /\ \E fr \in DeleteFrames : ReadEntryDelete(s, fr)
  /\ UNCHANGED <<heal, clientVars>>

\* a writer sends a sync_request of its own making, once the store is
\* populated and while nothing else is going on
PageAsk(s) ==
  /\ s \in PageWriters
  /\ ~connected[Pager]
  /\ frames >= MaxPageFrames
  /\ frames < MaxPageFrames + MaxRunSyncs
  /\ \A w \in PageWriters : rp[w].pc = "read" /\ inbox[w] = <<>>
  /\ \E fr \in SyncFrames : inbox' = [inbox EXCEPT ![s] = <<fr>>]
  /\ UNCHANGED <<storeVars, hubVars, taskVars, histVars, heal, connected, cursor,
                 pending, view, queued, localOps, pages, browserVars, scanVars>>

\* the browser connects while no handler of a writer is running
PageConnect(s) ==
  /\ s = Pager
  /\ \A w \in PageWriters : rp[w].pc = "read" /\ inbox[w] = <<>>
  /\ SyncConnect(s)

NextPage ==
  \E s \in Core :
    \/ PageRead(s)
    \/ PageUpsert(s)
    \/ UpsertWrite(s)
    \/ PageDelete(s)
    \/ DeleteWrite(s)
    \/ SendAck(s)
    \/ BroadcastEntry(s)
    \/ PageAsk(s)
    \/ PageConnect(s)
    \/ SendInitQuery(s)
    \/ SendInitEnqueue(s)
    \/ DeliverInit(s)
    \/ DeliverPresence(s)
    \/ SyncReadSync(s)
    \/ SendSyncResponse(s)
    \/ DeliverSyncResponse(s)

SpecPage == InitPage /\ [][NextPage]_vars

(* ------ SpecClose: connections whose transport fails at any moment ----- *)
\* two connections of one family exchange entries; the transport of either
\* may fail at any moment, after which reads and writes on it fail
CloseAdds == {fr \in PageAdds : fr.entry.id = "x" /\ ~fr.entry.deleted}

CloseUpsert(s) ==
  /\ connected[s]
  /\ frames < MaxCloseFrames
  /\ \E fr \in CloseAdds : ReadEntryUpsert(s, fr)
  /\ UNCHANGED <<heal, clientVars>>

\* writePump writes a frame to a working transport
CloseDeliver(s) ==
  /\ connected[s]
  /\ AnyRead(s)

\* the transport closes or fails
Break(s) ==
  /\ connected[s]
  /\ connected' = [connected EXCEPT ![s] = FALSE]
  /\ UNCHANGED <<storeVars, hubVars, taskVars, histVars, heal, cursor, pending, view,
                 inbox, queued, localOps, pages, browserVars, scanVars>>

\* ReadMessage fails on the failed transport
CloseReadError(s) ==
  /\ ~connected[s]
  /\ AnyClose(s)

\* WriteMessage fails on the failed transport: writePump breaks out of its
\* loop with the frame it had taken, and leaves the rest in the channel
WriteFail(s) ==
  /\ ~connected[s]
  /\ wp[s] = "run"
  /\ send[s] # <<>>
  /\ send' = [send EXCEPT ![s] = Tail(@)]
  /\ wp' = [wp EXCEPT ![s] = "done"]
  /\ UNCHANGED <<storeVars, hub, sendClosed, rp, histVars, heal, clientVars>>

NextClose ==
  \E s \in SyncSessions :
    \/ CloseUpsert(s)
    \/ UpsertWrite(s)
    \/ SendAck(s)
    \/ BroadcastEntry(s)
    \/ CloseDeliver(s)
    \/ Break(s)
    \/ CloseReadError(s)
    \/ WriteFail(s)
    \/ WritePumpExit(s)

\* every goroutine that can take a step is scheduled
FairClose ==
  \A s \in SyncSessions :
    /\ WF_vars(UpsertWrite(s))
    /\ WF_vars(SendAck(s))
    /\ WF_vars(BroadcastEntry(s))
    /\ WF_vars(CloseReadError(s))
    /\ WF_vars(WriteFail(s))
    /\ WF_vars(WritePumpExit(s))

SpecClose == InitSync /\ [][NextClose]_vars /\ FairClose

(* ------------ SpecAuth: access links and the GET /ws handler ---------- *)
\* the expires_at an admin may give a link
Expiries == {NullInt64} \cup {[Valid |-> TRUE, Int64 |-> n] : n \in 1..(MaxClock - 1)}

\* the admin API: a link for the token a browser will hold
CreateAccessLink(t) ==
  /\ links[t] = NoLink
  /\ \E exp \in Expiries : links' = [links EXCEPT ![t] = LinkOf(t, exp)]
  /\ UNCHANGED <<familySeq, rows, configs, schema, clock, hubVars, taskVars, histVars,
                 heal, clientVars>>

\* deleteAccessLink: DELETE FROM access_links WHERE token = ?
DeleteAccessLink(t) ==
  /\ links' = [links EXCEPT ![t] = NoLink]
  /\ UNCHANGED <<familySeq, rows, configs, schema, clock, hubVars, taskVars, histVars,
                 heal, clientVars>>

\* time passes
Tick ==
  /\ clock < MaxClock
  /\ clock' = clock + 1
  /\ UNCHANGED <<familySeq, rows, configs, links, schema, hubVars, taskVars, histVars,
                 heal, clientVars>>

\* handleWebSocket for a request of browser s: 401 without a cookie or without a
\* valid link, otherwise the upgrade and the registration
HandleWebSocket(s, cookie) ==
  /\ Len(http[s]) < MaxRequests
  /\ rp[s].pc = "off"
  /\ wp[s] \in {"off", "done"}
  /\ LET link == IF cookie = NoCookie THEN NoLink ELSE ValidateAccessLink(cookie, clock)
     IN IF link = NoLink
        THEN /\ http' = [http EXCEPT ![s] = Append(@, [cookie |-> cookie, status |-> 401])]
             /\ UNCHANGED <<storeVars, hubVars, taskVars, histVars>>
        ELSE /\ http' = [http EXCEPT ![s] = Append(@, [cookie |-> cookie, status |-> 101])]
             /\ Connect(s)
  /\ UNCHANGED <<heal, connected, cursor, pending, view, inbox, queued, localOps, pages,
                 storage, retry, scan>>

NextAuth ==
  \E s \in SyncSessions :
    \/ CreateAccessLink(s)
    \/ DeleteAccessLink(s)
    \/ Tick
    \/ \E cookie \in {s, NoCookie} : HandleWebSocket(s, cookie)
    \/ SendInitQuery(s)
    \/ SendInitEnqueue(s)
    \/ AnyRead(s)
    \/ AnyClose(s)
    \/ WritePumpExit(s)

SpecAuth == Init /\ [][NextAuth]_vars

(* ------------- SpecConfig: config frames of any session --------------- *)
\* the JSON texts a config frame may carry as data: two spellings of one value,
\* and another value
ConfigTexts == {"[1]", "[ 1 ]", "[2]"}
ConfigFrames == [type : {"config"}, data : ConfigTexts]
\* json.Marshal of a json.RawMessage: the text without insignificant whitespace
Compact(text) == IF text = "[ 1 ]" THEN "[1]" ELSE text

\* handleConfigMessage up to the broadcast: SaveConfig(c.familyID, string(msg.Data))
ReadConfig(s, fr) ==
  /\ rp[s].pc = "read"
  /\ fr.type = "config"
  /\ frames' = frames + 1
  /\ configs' = SaveConfig(FamilyOf(s), fr.data)
  /\ rp' = [rp EXCEPT ![s] = [pc |-> "config_bcast", action |-> "-", e |-> NoRow,
               out |-> [type |-> "config", data |-> Compact(fr.data)], msg |-> fr]]
  /\ UNCHANGED <<familySeq, rows, links, schema, clock, hubVars, wp, commits, ackLog,
                 bcastLog, connects, persisted>>

\* handleConfigMessage: s.hub.Broadcast(c.familyID, broadcast, c)
BroadcastConfig(s) ==
  /\ rp[s].pc = "config_bcast"
  /\ send' = Broadcast(FamilyOf(s), rp[s].out, s)
  /\ rp' = [rp EXCEPT ![s] = Idle]
  /\ UNCHANGED <<storeVars, hub, sendClosed, wp, histVars, heal, clientVars>>

AnyConfig(s) ==
  /\ frames < MaxConfigFrames
  /\ \E fr \in ConfigFrames : ReadConfig(s, fr)
  /\ UNCHANGED <<heal, clientVars>>

NextConfig ==
  \E s \in Core :
    \/ AnyConnect(s)
    \/ SendInitQuery(s)
    \/ SendInitEnqueue(s)
    \/ AnyRead(s)
    \/ WritePumpExit(s)
    \/ AnyClose(s)
    \/ AnyConfig(s)
    \/ BroadcastConfig(s)

SpecConfig == Init /\ [][NextConfig]_vars

(* ------------- SpecRetry: the browser's reconnect timers -------------- *)
\* a back-off that grows by reconnectDelay per attempt
DelayLinear(k) == ReconnectDelay * (k + 1)
\* scheduleReconnect: this.reconnectDelay * Math.pow(2, this.reconnectAttempts)
Delay(k) == ReconnectDelay * 2^k

\* scheduleReconnect()
ScheduleReconnect(r) ==
  IF r.attempts >= MaxReconnectAttempts THEN r
  ELSE [r EXCEPT !.attempts = @ + 1, !.armed = TRUE,
                 !.timers = Append(@, Delay(r.attempts))]

\* connect(), called when the page loads or when the reconnect timer fires
StartConnect(s) ==
  /\ retry[s].armed \/ (retry[s].attempts = 0 /\ retry[s].timers = <<>>)
  /\ ~(retry[s].connecting \/ connected[s])
  /\ retry' = [retry EXCEPT ![s].armed = FALSE, ![s].connecting = TRUE]
  /\ UNCHANGED <<storeVars, hubVars, taskVars, histVars, heal, connected, cursor, pending,
                 view, inbox, queued, localOps, pages, http, storage, scan>>

\* ws.onopen
OnOpen(s) ==
  /\ retry[s].connecting
  /\ connected' = [connected EXCEPT ![s] = TRUE]
  /\ retry' = [retry EXCEPT ![s] = NoRetry]
  /\ UNCHANGED <<storeVars, hubVars, taskVars, histVars, heal, cursor, pending,
                 view, inbox, queued, localOps, pages, http, storage, scan>>

\* ws.onclose, of a socket that was open or that never opened
OnClose(s) ==
  /\ retry[s].connecting \/ connected[s]
  /\ connected' = [connected EXCEPT ![s] = FALSE]
  /\ retry' = [retry EXCEPT ![s] = ScheduleReconnect([@ EXCEPT !.connecting = FALSE])]
  /\ UNCHANGED <<storeVars, hubVars, taskVars, histVars, heal, cursor, pending,
                 view, inbox, queued, localOps, pages, http, storage, scan>>

NextRetry == \E s \in SyncSessions : StartConnect(s) \/ OnOpen(s) \/ OnClose(s)

SpecRetry == Init /\ [][NextRetry]_vars

(* ---------------- SpecOpen: NewDB on a database file ------------------ *)
SetMax(S) == CHOOSE n \in S : \A k \in S : k <= n

\* a file that has never been opened
EmptyFile == [versions |-> {}, ran |-> <<>>, rowid |-> [i \in Ids |-> 0],
              opens |-> 0, err |-> FALSE]

\* the entries rows a file written under schema version 1 may hold: no seq column
OldRows ==
  {r \in [Ids -> {NoRow} \cup [id : Ids, family_id : Families, val : Vals,
                                deleted : BOOLEAN, updated_at : {1}, seq : {0}]] :
     \A i \in Ids : r[i] # NoRow => r[i].id = i}

\* the rowids SQLite may have given those rows
RowIds(r) ==
  {w \in [Ids -> 0..Cardinality(Ids)] :
     /\ \A i \in Ids : (w[i] = 0) = (r[i] = NoRow)
     /\ \A i, j \in Ids : (i # j /\ w[i] # 0) => w[i] # w[j]}

\* a loop that runs every migration whatever version is recorded
SkipNever(v, version) == FALSE
\* migrate: if v <= version { continue }
Skip(v, version) == v <= version

\* db.Exec(m) and the INSERT INTO schema_version for migration v; a migration
\* whose tables or columns exist already fails at its first statement
RunMigration(v, db) ==
  IF \E i \in 1..Len(db.schema.ran) : db.schema.ran[i] = v
  THEN [db EXCEPT !.schema.err = TRUE]
  ELSE LET seqd == [i \in Ids |-> IF db.rows[i] = NoRow THEN NoRow
                                   ELSE [db.rows[i] EXCEPT !.seq = db.schema.rowid[i]]]
           done == [db.schema EXCEPT !.ran = Append(@, v), !.versions = @ \cup {v}]
       IN IF v = 1 THEN [db EXCEPT !.schema = done]
          ELSE [familySeq |-> [f \in Families |->
                                 SetMax({0} \cup {seqd[i].seq : i \in
                                    {j \in Ids : seqd[j] # NoRow /\ seqd[j].family_id = f}})],
                rows |-> seqd,
                schema |-> done]

\* migrate(db): the recorded version, then the migrations above it in order
RECURSIVE MigrateFrom(_, _, _)
MigrateFrom(v, version, db) ==
  IF v > NumMigrations \/ db.schema.err THEN db
  ELSE MigrateFrom(v + 1, version,
                   IF Skip(v, version) THEN db ELSE RunMigration(v, db))

Migrate(db) == MigrateFrom(1, SetMax({0} \cup db.schema.versions), db)

\* NewDB(path)
NewDB ==
  /\ schema.opens < MaxOpens
  /\ LET db == Migrate([familySeq |-> familySeq, rows |-> rows,
                        schema |-> [schema EXCEPT !.opens = @ + 1, !.err = FALSE]])
     IN /\ familySeq' = db.familySeq
        /\ rows' = db.rows
        /\ schema' = db.schema
  /\ UNCHANGED <<configs, links, clock, hubVars, taskVars, histVars, heal, clientVars>>

\* UpsertEntry on the open store, between two opens of the file
StoreUpsert(f, id, val) ==
  /\ schema.opens > 0
  /\ ~schema.err
  /\ Len(commits[f]) < MaxStoreWrites
  /\ familySeq' = [familySeq EXCEPT ![f] = NextSeq(f)]
  /\ commits' = [commits EXCEPT ![f] = Append(@, NextSeq(f))]
  /\ rows' = UpsertRow([id |-> id, family_id |-> f, val |-> val, deleted |-> FALSE,
                        updated_at |-> clock, seq |-> NextSeq(f)])
  /\ schema' = [schema EXCEPT !.rowid[id] =
                   IF rows[id] = NoRow THEN SetMax({schema.rowid[i] : i \in Ids}) + 1 ELSE @]
  /\ UNCHANGED <<configs, links, clock, hubVars, taskVars, ackLog, bcastLog, frames,
                 connects, persisted, heal, clientVars>>

\* the file NewDB is given: none yet, or one left by a build that had
\* migration 1 only, with any entries rows
InitOpen ==
  /\ \/ /\ schema = EmptyFile
        /\ rows = [i \in Ids |-> NoRow]
     \/ /\ rows \in OldRows
        /\ \E w \in RowIds(rows) :
             schema = [versions |-> {1}, ran |-> <<1>>, rowid |-> w, opens |-> 0,
                       err |-> FALSE]
  /\ familySeq = [f \in Families |-> 0]
  /\ configs = [f \in Families |-> DefaultConfig]
  /\ links = [t \in Sessions |-> LinkOf(t, NullInt64)]
  /\ clock = 1
  /\ commits = [f \in Families |-> <<>>]
  /\ ackLog = {}
  /\ bcastLog = {}
  /\ frames = 0
  /\ persisted = {}
  /\ heal = [s \in Sessions |-> "none"]
  /\ InitClients
  /\ hub = <<>>
  /\ send = [s \in Sessions |-> <<>>]
  /\ sendClosed = [s \in Sessions |-> FALSE]
  /\ rp = [s \in Sessions |-> Off]
  /\ wp = [s \in Sessions |-> "off"]
  /\ connects = 0

NextOpen ==
  \/ NewDB
  \/ \E f \in Families, id \in Ids, val \in Vals : StoreUpsert(f, id, val)

SpecOpen == InitOpen /\ [][NextOpen]_vars

(* ------- SpecOrder: two submitters and a third session of a family ----- *)
OrderSessions == {s \in Sessions : FamilyOf(s) = "F"}
Submitters == {"s1", "s2"}

\* the three sessions of family F registered, their pumps running
InitOrder ==
  /\ InitStore
  /\ InitClients
  /\ hub = [f \in {"F"} |-> OrderSessions]
  /\ send = [s \in Sessions |-> <<>>]
  /\ sendClosed = [s \in Sessions |-> FALSE]
  /\ rp = [s \in Sessions |-> IF s \in OrderSessions THEN Idle ELSE Off]
  /\ wp = [s \in Sessions |-> IF s \in OrderSessions THEN "run" ELSE "off"]
  /\ connects = Cardinality(OrderSessions)

OrderUpsert(s) ==
  /\ s \in Submitters
  /\ frames < MaxOrderFrames
  /\ \E fr \in UpsertFrames : ReadEntryUpsert(s, fr)
  /\ UNCHANGED <<heal, clientVars>>

OrderDelete(s) ==
  /\ s \in Submitters
  /\ frames < MaxOrderFrames
  /\ \E fr \in DeleteFrames : ReadEntryDelete(s, fr)
  /\ UNCHANGED <<heal, clientVars>>

NextOrder ==
  \E s \in OrderSessions :
    \/ AnyRead(s)
    \/ OrderUpsert(s)
    \/ UpsertWrite(s)
    \/ OrderDelete(s)
    \/ DeleteWrite(s)
    \/ SendAck(s)
    \/ BroadcastEntry(s)

SpecOrder == InitOrder /\ [][NextOrder]_vars

(* ------------------- properties of the record store ------------------- *)
\* C1: in every family the seq values assigned, in the order the bumps commit,
\* are 1, 2, 3, ...: each is the previous family seq plus one and none repeats
C1_SeqAssignedInOrder ==
  \A f \in Families :
    /\ Len(commits[f]) = familySeq[f]
    /\ \A i \in 1..Len(commits[f]) : commits[f][i] = i

\* two handlers of one family are between their two statements, one an upsert
\* and one a delete, holding seq 1 and seq 2
C1_Witness ==
  \E s, t \in Sessions :
    /\ FamilyOf(s) = FamilyOf(t)
    /\ rp[s].pc = "upsert_write" /\ rp[t].pc = "delete_write"
    /\ {rp[s].e.seq, rp[t].e.seq} = {1, 2}
    /\ commits[FamilyOf(s)] = <<1, 2>>

\* C2: when GetEntriesSinceCursor returns a row with seq k, the row write of
\* every mutation of that family that was assigned a smaller seq has run
C2_ScanSeesSeqOrder ==
  [][\A s \in Sessions :
       (rp[s].pc = "read" /\ rp'[s].pc = "resp_send") =>
         \A i \in 1..Len(rp'[s].out.entries) :
           \A t \in Sessions :
             (FamilyOf(t) = FamilyOf(s) /\ rp[t].pc = "upsert_write") =>
               rp[t].e.seq > rp'[s].out.entries[i].seq]_vars

\* C3: an add or update frame of a session of family F creates or changes
\* only rows whose family_id is F
C3_UpsertStaysInFamily ==
  [][\A s \in Sessions :
       (rp[s].pc = "upsert_write" /\ rp'[s].pc = "ack") =>
         \A i \in Ids : rows'[i] # rows[i] => rows'[i].family_id = FamilyOf(s)]_vars

\* C10: every change of a row stores a seq strictly greater than the seq the
\* row held before
C10_RowSeqIncreases ==
  [][\A i \in Ids :
       (rows[i] # NoRow /\ rows'[i] # rows[i]) => rows'[i].seq > rows[i].seq]_vars

\* the highest seq among the rows of a family, 0 when it has none
MaxRowSeq(f) ==
  IF FamilyRows(f) = {} THEN 0
  ELSE CHOOSE m \in {r.seq : r \in FamilyRows(f)} : \A r \in FamilyRows(f) : r.seq <= m

\* no UpsertEntry or DeleteEntry call is between its two statements
NoCallInProgress == \A s \in Sessions : rp[s].pc \notin {"upsert_write", "delete_write"}

\* C11: a family's seq is at least the seq of each of its rows, and equals the
\* highest of them whenever every UpsertEntry and DeleteEntry call has completed
C11_FamilySeqIsMaxRowSeq ==
  \A f \in Families :
    /\ \A r \in FamilyRows(f) : familySeq[f] >= r.seq
    /\ (NoCallInProgress /\ familySeq[f] > 0) => familySeq[f] = MaxRowSeq(f)

\* whether the entries table has no row with this id in this family
NoFamilyRow(f, id) == rows[id] = NoRow \/ rows[id].family_id # f

\* C12: a delete frame for an id without a row in the session's family does
\* not bump the family seq, and no entry_ack is enqueued for it
C12_DeleteUnknownIsNoOp ==
  [][\A s \in Sessions :
       /\ (/\ rp[s].pc = "read"
           /\ rp'[s].pc = "delete_write"
           /\ NoFamilyRow(FamilyOf(s), rp'[s].e.id)) => familySeq' = familySeq
       /\ (/\ rp[s].pc = "ack"
           /\ rp[s].action = "delete"
           /\ rp'[s].pc = "bcast"
           /\ NoFamilyRow(FamilyOf(s), rp[s].e.id)) => send' = send]_vars

\* C15: GetEntriesSinceCursor(f, c, n) with n > 0 returns min(n, k) rows of f
\* with seq > c, none of them above a row it leaves out, in ascending seq
\* order, tombstones among them, and has_more exactly when k > n
C15_ScanReturnsSmallestSeqs ==
  \A f \in Families : \A c \in 0..MaxPageFrames : \A n \in 1..2 :
    LET above == {r \in FamilyRows(f) : r.seq > c}
        k == Cardinality(above)
    IN \A res \in GetEntriesSinceCursor(f, c, n) :
         LET got == {res.entries[i] : i \in 1..Len(res.entries)}
         IN /\ Len(res.entries) = Min(n, k)
            /\ Cardinality(got) = Len(res.entries)
            /\ got \subseteq above
            /\ \A r \in got : \A o \in above \ got : r.seq <= o.seq
            /\ \A i, j \in 1..Len(res.entries) :
                 i < j => res.entries[i].seq <= res.entries[j].seq
            /\ res.has_more = (k > n)

\* a family holds a row and a tombstone, so that a scan with limit 1 has more
C15_Witness ==
  \E f \in Families :
    /\ Cardinality(FamilyRows(f)) = 2
    /\ \E r \in FamilyRows(f) : r.deleted
    /\ \E res \in GetEntriesSinceCursor(f, 0, 1) : res.has_more /\ Len(res.entries) = 1

(* ------------------------ properties of the hub ----------------------- *)
\* C8: every entry broadcast enqueued on a peer was preceded by the entry_ack
\* of the same id and seq enqueued on its submitter
C8_AckBeforeBroadcast ==
  \A b \in bcastLog :
    /\ b.to # b.from
    /\ [to |-> b.from, id |-> b.id, seq |-> b.seq] \in ackLog

\* a peer holds the broadcast of a delete as the last frame of its queue,
\* and the submitter has been sent the ack of the same seq
C8_Witness ==
  \E b \in bcastLog :
    /\ send[b.to] # <<>>
    /\ send[b.to][Len(send[b.to])] =
         [type |-> "entry", action |-> "delete", id |-> b.id, seq |-> b.seq]
    /\ [to |-> b.from, id |-> b.id, seq |-> b.seq] \in ackLog

\* C9: Hub.Broadcast(F, m, x) appends m to the queue of exactly the sessions
\* registered under F, other than x, whose queue has room
C9_BroadcastRecipients ==
  [][\A s \in Sessions :
       (rp[s].pc = "bcast" /\ rp'[s].pc = "read") =>
         \A t \in Sessions :
           send'[t] = IF /\ t \in HubClients(hub, FamilyOf(s))
                         /\ t # s
                         /\ Len(send[t]) < SendCap
                      THEN Append(send[t], rp[s].out)
                      ELSE send[t]]_vars

\* a broadcast has just reached a peer while a session of the other family
\* is registered
C9_Witness ==
  \E b \in bcastLog :
    /\ rp[b.from].pc = "read"
    /\ send[b.to] # <<>>
    /\ send[b.to][Len(send[b.to])].type = "entry"
    /\ \E u \in Sessions : FamilyOf(u) # FamilyOf(b.from) /\ u \in HubClients(hub, FamilyOf(u))

(* ---------------------- properties of the browser --------------------- *)
\* C4: an id leaves pendingEntries only after the server has run the row
\* write of the frame that was queued under it
C4_LeavesPendingAfterPersist ==
  [][\A c \in SyncSessions : \A i \in 1..Len(pending[c]) :
       pending[c][i].id \notin PendingIds(pending'[c]) =>
         [from |-> c, mut |-> MutationOf(pending[c][i].msg)] \in persisted]_vars

\* C5: a local add or toggle made while the browser is disconnected puts its
\* frame into pendingEntries
C5_OfflineMutationQueued ==
  [][\A c \in SyncSessions : \A i \in Ids :
       (~connected[c] /\ localOps'[c] # localOps[c] /\ view'[c][i] # view[c][i]) =>
         i \in PendingIds(pending'[c])]_vars

\* C6: once a connected browser's pendingEntries is empty and nothing of it is
\* in flight, the server has persisted every frame the browser queued, and the
\* cursor has reached the seq of every ack sent to it
C6_PendingDrainsPersisted ==
  \A c \in SyncSessions :
    (/\ connected[c]
     /\ pending[c] = <<>>
     /\ inbox[c] = <<>>
     /\ send[c] = <<>>
     /\ rp[c].pc = "read") =>
      /\ \A q \in queued : q.from = c => [from |-> c, mut |-> q.mut] \in persisted
      /\ \A a \in ackLog : a.to = c => cursor[c] >= a.seq

\* whether the browser's record of a row shows the row's state
Shows(local, row) ==
  IF local = NoLocal THEN row.deleted
  ELSE local.val = row.val /\ local.deleted = row.deleted

\* C7: a browser that lost a broadcast to a full queue, and has since sent a
\* sync_request and handled the last page of the answer, shows the server's
\* state of every entry of its family
C7_DroppedBroadcastHeals ==
  \A c \in SyncSessions :
    (heal[c] = "synced" /\ localOps[c] = 0) =>
      \A i \in Ids :
        (rows[i] # NoRow /\ rows[i].family_id = FamilyOf(c)) => Shows(view[c][i], rows[i])

\* every frame sent has been handled, and no handler is in progress
Quiescent ==
  \A s \in SyncSessions : send[s] = <<>> /\ inbox[s] = <<>> /\ rp[s].pc = "read"

\* no connection was ever closed and no broadcast ever dropped
NothingLost ==
  /\ connects = Cardinality(SyncSessions)
  /\ \A s \in SyncSessions : connected[s] /\ heal[s] = "none"

\* C13: once every frame in flight has been handled, with no connection lost
\* and no broadcast dropped, every browser shows the server's state of every
\* entry of its family
C13_PeersConverge ==
  (Quiescent /\ NothingLost) =>
    \A c \in SyncSessions : \A i \in Ids :
      (rows[i] # NoRow /\ rows[i].family_id = FamilyOf(c)) => Shows(view[c][i], rows[i])

(* ---------------------- properties of paging -------------------------- *)
\* the browser has handled a sync_response that says has_more = false
PageDone(c) ==
  /\ connected[c]
  /\ pages[c].got # <<>>
  /\ ~pages[c].got[Len(pages[c].got)].has_more

\* the record a browser holds when it has exactly the server's row
LocalOf(f, i) ==
  IF rows[i] # NoRow /\ rows[i].family_id = f
  THEN [val |-> rows[i].val, deleted |-> rows[i].deleted, updated |-> rows[i].updated_at]
  ELSE NoLocal

\* C14: a browser that connected with cursor 0, no records and nothing
\* pending, and has handled the pages up to has_more = false with no write
\* since it connected, holds exactly the rows of its family, tombstones
\* included, and its cursor is the family's seq
C14_FreshClientEndsInSync ==
  (PageDone(Pager) /\ pages[Pager].c0 = 0) =>
    /\ \A i \in Ids : view[Pager][i] = LocalOf(FamilyOf(Pager), i)
    /\ cursor[Pager] = familySeq[FamilyOf(Pager)]

\* the entries of a list of sync_responses, in the order received
RECURSIVE PageEntries(_)
PageEntries(got) == IF got = <<>> THEN <<>> ELSE Head(got).entries \o PageEntries(Tail(got))

\* every sync_request after the first carried the cursor of the sync_response
\* before it
FollowsResponses(c) ==
  \A n \in 2..Len(pages[c].reqs) : pages[c].reqs[n] = pages[c].got[n - 1].cursor

\* C16: with no write since it connected, the browser that has paged up to
\* has_more = false, each request carrying the cursor of the response before,
\* has received every row of its family with seq above the cursor it started
\* from exactly once, in ascending seq order, in as many requests as there are
\* pages of SyncLimit rows, and its cursor is the highest row seq
C16_PagingDeliversEachRowOnce ==
  (PageDone(Pager) /\ FollowsResponses(Pager)) =>
    LET f == FamilyOf(Pager)
        want == {r \in FamilyRows(f) : r.seq > pages[Pager].c0}
        k == Cardinality(want)
        es == PageEntries(pages[Pager].got)
    IN /\ {es[i] : i \in 1..Len(es)} = want
       /\ Len(es) = k
       /\ \A i, j \in 1..Len(es) : i < j => es[i].seq < es[j].seq
       /\ k > 0 => Len(pages[Pager].got) = (k + SyncLimit - 1) \div SyncLimit
       /\ k > 0 => cursor[Pager] = MaxRowSeq(f)

\* C17: a sync_response carries the highest seq among its entries, or the
\* request's cursor when it has none; and a request at the family's current
\* seq is answered with no entries, has_more = false and the same cursor
C17_ResponseCursor ==
  [][\A s \in Sessions :
       (rp[s].pc = "read" /\ rp'[s].pc = "resp_send" /\ inbox[s] # <<>>) =>
         LET req == Head(inbox[s])
             resp == rp'[s].out
         IN /\ resp.cursor = IF resp.entries # <<>> THEN MaxSeq(0, resp.entries)
                             ELSE req.cursor
            /\ req.cursor = familySeq[FamilyOf(s)] =>
                 resp.entries = <<>> /\ ~resp.has_more /\ resp.cursor = req.cursor]_vars

\* C18: when DeleteEntry runs for an id that a session of the same family has
\* upserted, and was assigned a seq above the row's, the row stays, is marked
\* deleted and carries the delete's seq; every scan from a cursor below that
\* seq returns it, and so does the query that fills an init frame
C18_DeleteLeavesTombstone ==
  [][\A s \in Sessions :
       LET i == rp[s].e.id
           f == FamilyOf(s)
       IN (/\ rp[s].pc = "delete_write"
           /\ rp'[s].pc = "ack"
           /\ \E p \in persisted :
                FamilyOf(p.from) = f /\ p.mut.id = i /\ p.mut.action # "delete"
           /\ rows[i].seq < rp[s].e.seq) =>
            /\ rows'[i].deleted
            /\ rows'[i].seq = rp[s].e.seq
            /\ \A c \in 0..(rp[s].e.seq - 1) :
                 \A res \in GetEntriesSinceCursor(f, c, 0)' :
                   \E n \in 1..Len(res.entries) : res.entries[n] = rows'[i]
            /\ \A es \in GetEntries(f, 0)' :
                 \E n \in 1..Len(es) : es[n] = rows'[i]]_vars

(* -------------------- properties of duplicates ------------------------ *)
\* C19: when the server writes the row of an entry/add frame that it has
\* written before for the same connection, the id's row carries the frame's
\* fields and the seq of this processing and no other row changes; and when a
\* browser handles an entry_ack, the id leaves its pending queue, which stays
\* as it is when the id is not in it
C19_DuplicateAddIdempotent ==
  [][\A s \in Sessions :
       /\ LET e == rp[s].e IN
            (/\ rp[s].pc = "upsert_write"
             /\ rp'[s].pc = "ack"
             /\ rp[s].action = "add"
             /\ [from |-> s, mut |-> Mutation("add", e.id, e.val, e.deleted)] \in persisted) =>
              /\ rows'[e.id].id = e.id
              /\ rows'[e.id].val = e.val
              /\ rows'[e.id].deleted = e.deleted
              /\ rows'[e.id].seq = e.seq
              /\ \A j \in Ids \ {e.id} : rows'[j] = rows[j]
       /\ (/\ connected[s]
           /\ send[s] # <<>>
           /\ Head(send[s]).type = "entry_ack"
           /\ send'[s] = Tail(send[s])) =>
            LET id == Head(send[s]).id IN
              /\ id \notin PendingIds(pending'[s])
              /\ pending'[s] = SelectSeq(pending[s], LAMBDA p : p.id # id)
              /\ id \notin PendingIds(pending[s]) => pending'[s] = pending[s]]_vars

\* a browser whose one user action was an add is about to handle the ack of
\* the second processing of its frame, the first ack having emptied pending
C19_Witness ==
  \E s \in SyncSessions :
    /\ connected[s]
    /\ localOps[s] = 1
    /\ send[s] # <<>>
    /\ Head(send[s]).type = "entry_ack"
    /\ Head(send[s]).id \notin PendingIds(pending[s])
    /\ rows[Head(send[s]).id].seq = Head(send[s]).seq
    /\ \E a \in ackLog :
         a.to = s /\ a.id = Head(send[s]).id /\ a.seq < Head(send[s]).seq

(* ------------------ properties of the outbound channel ---------------- *)
\* whether the connection is in the hub's families map
InHub(h, s) == s \in HubClients(h, FamilyOf(s))

\* C20: a connection's outbound channel is closed by the step that takes the
\* connection out of the hub and by no other; once it is closed its readPump
\* has ended, so nothing closes it again, and no frame is added to it
C20_ChannelClosedOnceAtUnregister ==
  [][\A s \in Sessions :
       /\ (~sendClosed[s] /\ sendClosed'[s]) => (InHub(hub, s) /\ ~InHub(hub', s))
       /\ (InHub(hub, s) /\ ~InHub(hub', s)) => (~sendClosed[s] /\ sendClosed'[s])
       /\ sendClosed[s] => (rp[s].pc = "off" /\ ~InHub(hub, s))
       /\ (sendClosed[s] /\ sendClosed'[s]) =>
            (send'[s] = send[s] \/ (send[s] # <<>> /\ send'[s] = Tail(send[s])))]_vars

\* a connection's channel is closed with a frame still in it, while a
\* handler of another connection of its family is about to broadcast
C20_Witness ==
  \E s, t \in Sessions :
    /\ s # t
    /\ FamilyOf(s) = FamilyOf(t)
    /\ sendClosed[s]
    /\ send[s] # <<>>
    /\ wp[s] = "run"
    /\ rp[t].pc = "bcast"

(* ------------------- properties of connection teardown ---------------- *)
\* C21: once a connection's transport has failed, eventually its readPump has
\* ended, it is out of the hub, its channel is closed and its writePump has
\* ended
C21_TransportCloseTearsDown ==
  \A s \in SyncSessions :
    (~connected[s]) ~>
      (rp[s].pc = "off" /\ ~InHub(hub, s) /\ sendClosed[s] /\ wp[s] = "done")

(* ------------------ properties of the hub's fan-out ------------------- *)
\* what a try-send of msg leaves in queue q
TrySend(q, msg) == IF Len(q) < SendCap THEN Append(q, msg) ELSE q

\* C22: Broadcast, Register and Unregister can always run, whatever the fill
\* level of the queues; each recipient whose queue has room gets the frame
\* appended, and a full queue is left as it is
C22_FanOutNeverBlocks ==
  [][\A s \in Sessions :
       LET f == FamilyOf(s) IN
       /\ rp[s].pc = "bcast" => ENABLED BroadcastEntry(s)
       /\ rp[s].pc = "read" => ENABLED ReadError(s)
       /\ (rp[s].pc = "off" /\ wp[s] \in {"off", "done"}) => ENABLED Connect(s)
       /\ (rp[s].pc = "bcast" /\ rp'[s].pc = "read") =>
            \A t \in HubClients(hub, f) \ {s} : send'[t] = TrySend(send[t], rp[s].out)
       /\ (rp[s].pc = "off" /\ rp'[s].pc = "init_query") =>
            \A t \in HubClients(hub', f) :
              send'[t] = TrySend(IF t = s THEN <<>> ELSE send[t], PresenceMsg(HubClients(hub', f)))
       /\ (rp[s].pc = "read" /\ rp'[s].pc = "off") =>
            \A t \in HubClients(hub', f) :
              send'[t] = TrySend(send[t], PresenceMsg(HubClients(hub', f)))]_vars

\* a connection has just registered and holds the presence frame, while
\* another connection of its family has a full queue that did not take it
C22_Witness ==
  \E s, t \in Sessions :
    /\ s # t
    /\ FamilyOf(s) = FamilyOf(t)
    /\ rp[s].pc = "init_query"
    /\ send[s] = <<PresenceMsg(HubClients(hub, FamilyOf(s)))>>
    /\ InHub(hub, t)
    /\ Len(send[t]) = SendCap
    /\ send[t][SendCap].type # "presence"

(* ---------------------- properties of the init frame ------------------ *)
\* the frame a step appends to the channel of s, or NoFrame
Enqueued(s) ==
  IF Len(send'[s]) = Len(send[s]) + 1 /\ SubSeq(send'[s], 1, Len(send[s])) = send[s]
  THEN send'[s][Len(send'[s])] ELSE NoFrame

\* the init frame is built from every row of the family and its config, it
\* is enqueued by sendInit and nowhere else, and acks, sync_responses and
\* pongs are enqueued by readPump, which starts after sendInit
InitFrameFirst ==
  \A s \in Sessions :
    /\ (rp[s].pc = "init_query" /\ rp'[s].pc = "init_send") =>
         LET es == rp'[s].out.entries IN
           /\ {es[n] : n \in 1..Len(es)} = FamilyRows(FamilyOf(s))
           /\ Len(es) = Cardinality(FamilyRows(FamilyOf(s)))
           /\ rp'[s].out.config = GetConfig(FamilyOf(s))
    /\ Enqueued(s).type = "init" =>
         (rp[s].pc = "init_send" /\ rp'[s].pc = "read" /\ Enqueued(s) = rp[s].out)
    /\ Enqueued(s).type \in {"entry_ack", "sync_response", "pong"} =>
         rp[s].pc \in {"ack", "resp_send", "read"}

\* C23: every accepted connection is sent one init frame, before any
\* entry_ack, sync_response or pong, holding every row of its family,
\* tombstones included, and the family's config
C23_OneInitFrameFirst ==
  /\ [][InitFrameFirst]_vars
  /\ \A s \in Sessions : (rp[s].pc = "init_query") ~> (rp[s].pc = "read")

(* ------------------- properties of the /ws handshake ------------------ *)
\* the link of the token exists and now is not past its expires_at
LinkGood(t, now) ==
  /\ t # NoCookie
  /\ links[t] # NoLink
  /\ (links[t].expires_at.Valid => now <= links[t].expires_at.Int64)

SeqsIn(msg) ==
  CASE msg.type = "init" -> {msg.entries[i].seq : i \in 1..Len(msg.entries)}
    [] msg.type = "sync_response" ->
         {msg.cursor} \cup {msg.entries[i].seq : i \in 1..Len(msg.entries)}
    [] msg.type = "entry_ack" -> {msg.seq}
    [] msg.type = "entry" -> IF msg.action = "delete" THEN {msg.seq} ELSE {msg.entry.seq}
    [] OTHER -> {}

\* the browser's handleMessage runs on the frame at the head of its connection
Handles(s) == connected[s] /\ send[s] # <<>> /\ send'[s] = Tail(send[s])

\* C25: a browser's cursor never decreases; handling a frame leaves it at the
\* highest of its value before and the seq values the frame carries, so it is the
\* highest seq received so far; and after every step the sync-cursor in
\* localStorage is the cursor in memory
C25_CursorIsHighestSeqSeen ==
  [][\A s \in SyncSessions :
       /\ cursor'[s] >= cursor[s]
       /\ Handles(s) =>
            /\ \A n \in SeqsIn(Head(send[s])) : cursor'[s] >= n
            /\ cursor'[s] \in {cursor[s]} \cup SeqsIn(Head(send[s]))
       /\ ~Handles(s) => cursor'[s] = cursor[s]
       /\ storage'[s].cursor = cursor'[s]]_vars

\* a browser that submits nothing has handled frames that carry seq 2, and its
\* cursor and the cursor in its localStorage are 2
C25_Witness ==
  \E s \in SyncSessions :
    /\ cursor[s] = 2
    /\ storage[s].cursor = 2
    /\ s \notin Writers

(* ------------------ properties of the pending queue ------------------ *)
\* the frames in the sync-pending-queue of a browser's localStorage, which
\* loadPendingQueue reads back after a restart
StoredMsgs(s) == {storage[s].queue[k].msg : k \in 1..Len(storage[s].queue)}

\* the entry frames a browser has transmitted that the server has not read, so
\* that no ack of them exists, leaving out a frame the browser has replaced by a
\* later frame for the same entry id
Unread(s) ==
  {inbox[s][i] : i \in {i \in 1..Len(inbox[s]) :
      /\ inbox[s][i].type = "entry"
      /\ \A j \in (i + 1)..Len(inbox[s]) :
            inbox[s][j].type = "entry" =>
              MutationOf(inbox[s][j]).id # MutationOf(inbox[s][i]).id}}

\* every entry frame a browser transmits is in the stored queue when it is sent
SentFromStore ==
  [][\A s \in SyncSessions :
       \A i \in (Len(inbox[s]) + 1)..Len(inbox'[s]) :
         (Len(inbox'[s]) > Len(inbox[s]) /\ inbox'[s][i].type = "entry") =>
           \E k \in 1..Len(storage'[s].queue) : storage'[s].queue[k].msg = inbox'[s][i]]_vars

\* C26: a browser that restarts reloads every frame it has transmitted and has
\* had no ack for: each such frame is in the pending queue of its localStorage
C26_UnackedFramesStayStored ==
  \A s \in SyncSessions : Unread(s) \subseteq StoredMsgs(s)

(* ---------------------- properties of the config ---------------------- *)
\* C27: the stored config of a family changes only when the server handles a
\* config frame of one of its sessions, and GetConfig then returns exactly the
\* text of that frame, so it always returns the text of the frame saved last;
\* the handler then puts one config frame with the same JSON value on the queue
\* of every other registered session of the family that has room, and on no
\* other queue
C27_ConfigLastWriterWins ==
  [][/\ \A s \in Sessions :
          /\ (rp[s].pc = "read" /\ rp'[s].pc = "config_bcast") =>
               GetConfig(FamilyOf(s))' = rp'[s].msg.data
          /\ (rp[s].pc = "config_bcast" /\ rp'[s].pc = "read") =>
               \A u \in Sessions :
                 IF /\ u \in HubClients(hub, FamilyOf(s))
                    /\ u # s
                    /\ Len(send[u]) < SendCap
                 THEN /\ Len(send'[u]) = Len(send[u]) + 1
                      /\ SubSeq(send'[u], 1, Len(send[u])) = send[u]
                      /\ send'[u][Len(send'[u])].type = "config"
                      /\ Compact(send'[u][Len(send'[u])].data) = Compact(rp[s].msg.data)
                 ELSE send'[u] = send[u]
     /\ \A f \in Families :
          configs'[f] # configs[f] =>
            \E s \in Sessions :
              FamilyOf(s) = f /\ rp[s].pc = "read" /\ rp'[s].pc = "config_bcast"]_vars

\* two sessions of a family have each had a config frame handled: the store
\* holds the text of the second, spelled with whitespace, and the first
\* session's queue ends with the broadcast of it
C27_Witness ==
  \E s, u \in Sessions :
    /\ s # u
    /\ FamilyOf(s) = FamilyOf(u)
    /\ frames = MaxConfigFrames
    /\ rp[s].pc = "read"
    /\ rp[u].pc = "read"
    /\ GetConfig(FamilyOf(s)) = "[ 1 ]"
    /\ send[u] # <<>>
    /\ send[u][Len(send[u])] = [type |-> "config", data |-> "[1]"]
    /\ send[s] # <<>>
    /\ send[s][Len(send[s])] = [type |-> "config", data |-> "[2]"]

(* ------------------ properties of the reconnect timers --------------- *)
\* C28: the k-th reconnect a browser schedules after its last successful open,
\* counting from k = 0, has a delay of 1000 * 2^k ms; reconnectAttempts is the
\* number scheduled since that open and is 0 while the socket is open; at most 10
\* are scheduled, so no delay exceeds 512000 ms; a close before the 10th is
\* scheduled arms a timer and a close after it arms none
C28_BackoffDoublesAndGivesUp ==
  [][\A s \in SyncSessions :
       LET r == retry'[s]
       IN /\ r.attempts = Len(r.timers)
          /\ \A i \in 1..Len(r.timers) :
               r.timers[i] = 1000 * 2^(i - 1) /\ r.timers[i] <= 512000
          /\ Len(r.timers) <= 10
          /\ connected'[s] => r.attempts = 0
          /\ ((retry[s].connecting \/ connected[s]) /\ ~r.connecting /\ ~connected'[s]) =>
               r.armed = (retry[s].attempts < 10)]_vars

\* a browser has scheduled ten reconnects since it was last open, the last one
\* 512 s after the close before it, and the attempt after that has failed: no
\* timer is pending
C28_Witness ==
  \E s \in SyncSessions :
    /\ retry[s].attempts = 10
    /\ retry[s].timers[10] = 512000
    /\ ~retry[s].armed
    /\ ~retry[s].connecting
    /\ ~connected[s]

(* ---------------------- properties of migrate ------------------------- *)
\* C29: every NewDB succeeds and leaves versions 1 and 2 recorded, the highest
\* being 2, with the two migrations run once each, 1 before 2, over the whole life
\* of the file; and a NewDB on a file that has both versions changes neither the
\* rows, nor the family seqs, nor the recorded versions, nor the migrations run
C29_MigrateOnceInOrder ==
  [][schema'.opens = schema.opens + 1 =>
       /\ ~schema'.err
       /\ schema'.versions = {1, 2}
       /\ SetMax(schema'.versions) = 2
       /\ schema'.ran = <<1, 2>>
       /\ schema.versions = {1, 2} =>
            /\ rows' = rows
            /\ familySeq' = familySeq
            /\ schema'.versions = schema.versions
            /\ schema'.ran = schema.ran]_vars

\* a file written under version 1 has been opened three times, and a row
\* written between the opens still has the seq of its write, not its rowid
C29_Witness ==
  /\ schema.opens = MaxOpens
  /\ schema.ran = <<1, 2>>
  /\ \E i \in Ids : rows[i] # NoRow /\ schema.rowid[i] = 1 /\ rows[i].seq = 2

(* ------------------ properties of the broadcast order ---------------- *)
\* the seq an entry broadcast carries
BroadcastSeq(msg) == IF msg.action = "delete" THEN msg.seq ELSE msg.entry.seq

\* C30: the entry broadcasts waiting in a session's outbound queue are in the
\* order of their commits: their seq values increase from the head of the queue
\* to its tail
C30_BroadcastsInCommitOrder ==
  \A t \in Sessions :
    \A i, j \in 1..Len(send[t]) :
      (i < j /\ send[t][i].type = "entry" /\ send[t][j].type = "entry") =>
        BroadcastSeq(send[t][i]) < BroadcastSeq(send[t][j])

(* ---------------------- properties of the flush ------------------------ *)
\* the frames a step of browser s adds to what it has transmitted
Added(s) == SubSeq(inbox'[s], Len(inbox[s]) + 1, Len(inbox'[s]))

\* C31: a browser re-sends pending frames only in the step that handles a
\* sync_response with has_more = false; it then sends exactly the frames of its
\* pending queue in the queue's order, and they all stay in the queue
C31_FlushOnlyAfterSyncDone ==
  [][\A s \in SyncSessions :
       (/\ Handles(s)
        /\ Len(inbox'[s]) > Len(inbox[s])
        /\ \E i \in 1..Len(Added(s)) : Added(s)[i].type = "entry") =>
         /\ Head(send[s]).type = "sync_response"
         /\ ~Head(send[s]).has_more
         /\ Added(s) = PendingMsgs(pending'[s])]_vars

(* -------- SpecFail: store calls whose statements can fail ------------- *)
\* every step of NextRun between the browsers of F, and a statement of
\* UpsertEntry or DeleteEntry returning an error (SQLITE_BUSY, SQLITE_FULL)
MaxFailFrames == 2

FailUpsert(s) ==
  /\ frames < MaxFailFrames
  /\ \E fr \in UpsertFrames : ReadEntryUpsert(s, fr)
  /\ UNCHANGED <<heal, clientVars>>

FailDelete(s) ==
  /\ frames < MaxFailFrames
  /\ \E fr \in DeleteFrames : ReadEntryDelete(s, fr)
  /\ UNCHANGED <<heal, clientVars>>

\* the first statement fails: `if err != nil { return 0, err }`, and
\* handleEntryMessage logs and returns
BumpFail(s) ==
  /\ rp[s].pc = "read"
  /\ frames < MaxFailFrames
  /\ frames' = frames + 1
  /\ UNCHANGED <<storeVars, hubVars, rp, wp, commits, ackLog, bcastLog, connects,
                 persisted, heal, clientVars>>

\* the second statement fails after the first has committed: UpsertEntry and
\* DeleteEntry return err, handleEntryMessage logs and returns
WriteError(s) ==
  /\ rp[s].pc \in {"upsert_write", "delete_write"}
  /\ rp' = [rp EXCEPT ![s] = Idle]
  /\ UNCHANGED <<storeVars, hubVars, wp, commits, ackLog, bcastLog, frames, connects,
                 persisted, heal, clientVars>>

NextFail ==
  \E s \in SyncSessions :
    \/ AnyRead(s)
    \/ FailUpsert(s)
    \/ UpsertWrite(s)
    \/ FailDelete(s)
    \/ DeleteWrite(s)
    \/ SendAck(s)
    \/ BroadcastEntry(s)
    \/ BumpFail(s)
    \/ WriteError(s)

SpecFail == InitRun /\ [][NextFail]_vars

\* the handler of s returns from a failed store call
StoreCallFails(s) ==
  /\ rp[s].pc \in {"upsert_write", "delete_write"}
  /\ rp'[s].pc = "read"

\* C32: when the store call of an entry frame fails, no frame is enqueued
\* for any session, the session stays subscribed, no row changes, and the
\* family seq is what it was before the frame (the frame's own bump is the
\* latest one of the family, so no other frame moved the seq meanwhile)
C32_FailedStoreCallChangesNothing ==
  [][\A s \in SyncSessions :
       StoreCallFails(s) =>
         /\ send' = send
         /\ ackLog' = ackLog
         /\ InHub(hub', s)
         /\ rows' = rows
         /\ (commits[FamilyOf(s)][Len(commits[FamilyOf(s)])] = rp[s].e.seq =>
               familySeq'[FamilyOf(s)] = rp[s].e.seq - 1)]_vars

(* ------ SpecBulk: sync frames that carry entries (legacy bulk sync) ---- *)
MaxBulkFrames == 2
MaxItems == 2

\* the entries a client may put in a sync frame
BulkEntry == [id : Ids, val : {"a"}, deleted : BOOLEAN]
BulkItems == UNION {[1..n -> BulkEntry] : n \in 1..MaxItems}
BulkFrames == [type : {"sync", "sync_request"}, entries : BulkItems, cursor : {0}, limit : {0}]

\* a loop that announces every item as an add
SyncBroadcastMsgAdd(e) == [type |-> "entry", action |-> "add", entry |-> e]
\* the frame the loop broadcasts for an item it has stored
SyncBroadcastMsg(e) ==
  IF e.deleted
  THEN [type |-> "entry", action |-> "delete", id |-> e.id, seq |-> e.seq]
  ELSE [type |-> "entry", action |-> "add", entry |-> e]

\* readPump hands a sync or sync_request frame with entries to handleSyncMessage
\* (the browser that submits is s1; s2 is the family's other session)
ReadBulk(s, fr) ==
  /\ s \in Writers
  /\ rp[s].pc = "read"
  /\ frames < MaxBulkFrames
  /\ frames' = frames + 1
  /\ rp' = [rp EXCEPT ![s] = [pc |-> "sync_loop", action |-> "-", e |-> NoRow,
                              out |-> NoFrame, msg |-> fr, todo |-> fr.entries,
                              done |-> <<>>]]
  /\ UNCHANGED <<storeVars, hubVars, wp, commits, ackLog, bcastLog, connects,
                 persisted, heal, clientVars>>

\* for _, e := range clientEntries: e.FamilyID = c.familyID and the first
\* statement of UpsertEntry
SyncItem(s) ==
  /\ rp[s].pc = "sync_loop"
  /\ rp[s].todo # <<>>
  /\ LET f == FamilyOf(s)
         it == Head(rp[s].todo)
     IN /\ familySeq' = [familySeq EXCEPT ![f] = NextSeq(f)]
        /\ commits' = [commits EXCEPT ![f] = Append(@, NextSeq(f))]
        /\ rp' = [rp EXCEPT ![s].pc = "sync_write", ![s].todo = Tail(@),
                    ![s].e = [id |-> it.id, family_id |-> f, val |-> it.val,
                              deleted |-> it.deleted, updated_at |-> clock,
                              seq |-> NextSeq(f)]]
  /\ UNCHANGED <<rows, configs, links, schema, clock, hubVars, wp, ackLog, bcastLog,
                 frames, connects, persisted, heal, clientVars>>

\* UpsertEntry returns an error: the loop logs it and continues with the next item
SyncItemError(s) ==
  /\ \/ rp[s].pc = "sync_loop" /\ rp[s].todo # <<>>
        /\ rp' = [rp EXCEPT ![s].todo = Tail(@),
                    ![s].done = Append(@, [id |-> Head(rp[s].todo).id, ok |-> FALSE,
                                           seq |-> 0, offered |-> NoFrame])]
     \/ rp[s].pc = "sync_write"
        /\ rp' = [rp EXCEPT ![s].pc = "sync_loop", ![s].e = NoRow,
                    ![s].done = Append(@, [id |-> rp[s].e.id, ok |-> FALSE,
                                           seq |-> 0, offered |-> NoFrame])]
  /\ UNCHANGED <<storeVars, hubVars, wp, commits, ackLog, bcastLog, frames, connects,
                 persisted, heal, clientVars>>

\* the second statement of UpsertEntry
SyncItemWrite(s) ==
  /\ rp[s].pc = "sync_write"
  /\ rows' = UpsertRow(rp[s].e)
  /\ persisted' = persisted \cup
       {[from |-> s, mut |-> Mutation("sync", rp[s].e.id, rp[s].e.val, rp[s].e.deleted)]}
  /\ heal' = Staled(FamilyOf(s))
  /\ rp' = [rp EXCEPT ![s].pc = "sync_ack", ![s].out = AckMsg(rp[s].e)]
  /\ UNCHANGED <<familySeq, configs, links, schema, clock, hubVars, wp, commits, ackLog,
                 bcastLog, frames, connects, clientVars>>

\* c.send <- ack
SyncItemAck(s) ==
  /\ rp[s].pc = "sync_ack"
  /\ Len(send[s]) < SendCap
  /\ send' = [send EXCEPT ![s] = Append(@, rp[s].out)]
  /\ ackLog' = ackLog \cup {[to |-> s, id |-> rp[s].out.id, seq |-> rp[s].out.seq]}
  /\ rp' = [rp EXCEPT ![s].pc = "sync_bcast", ![s].out = SyncBroadcastMsg(rp[s].e)]
  /\ UNCHANGED <<storeVars, hub, sendClosed, wp, commits, bcastLog,
                 frames, connects, persisted, heal, clientVars>>

\* s.hub.Broadcast(c.familyID, broadcast, c), and the next turn of the loop
SyncItemBroadcast(s) ==
  /\ rp[s].pc = "sync_bcast"
  /\ send' = Broadcast(FamilyOf(s), rp[s].out, s)
  /\ bcastLog' = bcastLog \cup
       {[to |-> t, from |-> s, id |-> rp[s].e.id, seq |-> rp[s].e.seq] :
          t \in {u \in Sessions : send'[u] # send[u]}}
  /\ heal' = [t \in Sessions |->
                IF t \in HubClients(hub, FamilyOf(s)) \ {s} /\ send'[t] = send[t]
                THEN "dropped" ELSE heal[t]]
  /\ rp' = [rp EXCEPT ![s].pc = "sync_loop", ![s].e = NoRow, ![s].out = NoFrame,
              ![s].done = Append(@, [id |-> rp[s].e.id, ok |-> TRUE,
                                     seq |-> rp[s].e.seq, offered |-> rp[s].out])]
  /\ UNCHANGED <<storeVars, hub, sendClosed, wp, commits, ackLog,
                 frames, connects, persisted, clientVars>>

\* after the loop: GetEntriesSinceCursor and the response
SyncAfterLoop(s) ==
  /\ rp[s].pc = "sync_loop"
  /\ rp[s].todo = <<>>
  /\ \E r \in GetEntriesSinceCursor(FamilyOf(s), rp[s].msg.cursor, rp[s].msg.limit) :
       rp' = [rp EXCEPT ![s].pc = "resp_send",
                ![s].out = [type |-> "sync_response", entries |-> r.entries,
                            cursor |-> IF Len(r.entries) > 0
                                       THEN r.entries[Len(r.entries)].seq
                                       ELSE rp[s].msg.cursor,
                            has_more |-> r.has_more]]
  /\ UNCHANGED <<storeVars, hubVars, wp, histVars, heal, clientVars>>

NextBulk ==
  \E s \in SyncSessions :
    \/ AnyRead(s)
    \/ \E fr \in BulkFrames : ReadBulk(s, fr)
    \/ SyncItem(s)
    \/ SyncItemError(s)
    \/ SyncItemWrite(s)
    \/ SyncItemAck(s)
    \/ SyncItemBroadcast(s)
    \/ SyncAfterLoop(s)
    \/ SendSyncResponse(s)

SpecBulk == InitRun /\ [][NextBulk]_vars

\* the handler of s is in handleSyncMessage for a frame with entries
InBulk(s) == "todo" \in DOMAIN rp[s]

\* C33: for a sync or sync_request frame with entries, every item the store
\* accepts (deleted or not) is acked to the submitter with its seq and then
\* broadcast to the family's other sessions that have room (delete with id and
\* seq for deleted = true, add with the full entry otherwise), the handler
\* ends only by enqueuing the sync_response, and the sync_response is enqueued
\* only after every item of the frame has been processed in order
C33_BulkItemsAckedThenBroadcast ==
  [][\A s \in SyncSessions :
       /\ (InBulk(s) /\ rp[s].pc = "sync_write" /\ rows' # rows) =>
            rp'[s].pc = "sync_ack"
       /\ (InBulk(s) /\ rp[s].pc = "sync_ack" /\ rp'[s] # rp[s]) =>
            /\ send'[s] = Append(send[s], [type |-> "entry_ack", id |-> rp[s].e.id,
                                           seq |-> rp[s].e.seq])
            /\ rp'[s].pc = "sync_bcast"
       /\ (InBulk(s) /\ rp[s].pc = "sync_bcast" /\ rp'[s] # rp[s]) =>
            /\ [to |-> s, id |-> rp[s].e.id, seq |-> rp[s].e.seq] \in ackLog
            /\ send'[s] = send[s]
            /\ \A t \in HubClients(hub, FamilyOf(s)) \ {s} :
                 Len(send[t]) < SendCap =>
                   send'[t] = Append(send[t],
                     IF rp[s].e.deleted
                     THEN [type |-> "entry", action |-> "delete", id |-> rp[s].e.id,
                           seq |-> rp[s].e.seq]
                     ELSE [type |-> "entry", action |-> "add", entry |-> rp[s].e])
       /\ (InBulk(s) /\ rp'[s].pc = "read") =>
            /\ rp[s].pc = "resp_send"
            /\ send'[s] = Append(send[s], rp[s].out)
            /\ rp[s].out.type = "sync_response"
       /\ (InBulk(s) /\ Len(send'[s]) > Len(send[s])
             /\ send'[s][Len(send'[s])].type = "sync_response") =>
            /\ rp[s].todo = <<>>
            /\ Len(rp[s].done) = Len(rp[s].msg.entries)
            /\ \A i \in 1..Len(rp[s].done) :
                 /\ rp[s].done[i].id = rp[s].msg.entries[i].id
                 /\ rp[s].done[i].ok =>
                      [to |-> s, id |-> rp[s].done[i].id, seq |-> rp[s].done[i].seq]
                        \in ackLog]_vars

\* s1 has its sync_response queued after both items of its frame were acked,
\* and s2 was sent the delete of an item that was stored with deleted = true
C33_Witness ==
  /\ frames = 1
  /\ \E i \in 1..Len(send["s1"]) : send["s1"][i].type = "sync_response"
  /\ Cardinality({a \in ackLog : a.to = "s1"}) = 2
  /\ \E b \in bcastLog :
       /\ b.to = "s2"
       /\ rows[b.id].deleted
       /\ rows[b.id].seq = b.seq
  /\ \E b \in bcastLog : b.to = "s2" /\ ~rows[b.id].deleted

(* ---------- SpecPend: the browser's pendingConfig slot ---------------- *)
\* two connected browsers of F change the button configuration
MaxConfigSends == 2
\* JSON.stringify of the validated configuration
BrowserTexts == {"[1]", "[2]"}

\* sendConfig(config): pendingConfig = {msg}, savePendingConfig, safeSend
SendConfig(c, data) ==
  /\ localOps[c] < MaxConfigSends
  /\ localOps' = [localOps EXCEPT ![c] = @ + 1]
  /\ storage' = [storage EXCEPT ![c].config = [type |-> "config", data |-> data]]
  /\ inbox' = [inbox EXCEPT ![c] = IF connected[c]
                                   THEN Append(@, [type |-> "config", data |-> data])
                                   ELSE @]
  /\ UNCHANGED <<storeVars, hubVars, taskVars, histVars, heal, connected, cursor,
                 pending, view, queued, pages, http, retry, scan>>

\* readPump reads the browser's config frame
PendReadConfig(s) ==
  /\ inbox[s] # <<>>
  /\ ReadConfig(s, Head(inbox[s]))
  /\ inbox' = [inbox EXCEPT ![s] = Tail(@)]
  /\ UNCHANGED <<heal, connected, cursor, pending, view, queued, localOps, pages,
                 browserVars, scanVars>>

\* handleMessage, case 'config': handleConfigAck() clears pendingConfig
\* and saves it, then onConfig(msg.data)
DeliverConfig(s) ==
  /\ connected[s]
  /\ WritePump(s)
  /\ Head(send[s]).type = "config"
  /\ storage' = [storage EXCEPT ![s].config = NoFrame]
  /\ UNCHANGED <<heal, connected, cursor, pending, view, inbox, queued, localOps,
                 pages, http, retry, scan>>

NextPend ==
  \E s \in SyncSessions :
    \/ \E d \in BrowserTexts : SendConfig(s, d)
    \/ PendReadConfig(s)
    \/ BroadcastConfig(s)
    \/ DeliverConfig(s)

SpecPend == InitSync /\ [][NextPend]_vars

\* C34: a config frame that comes from another session (its data is not
\* the data of the browser's own pending frame, and the server sends a
\* session no frame for its own save) leaves the pendingConfig slot as it is
C34_ForeignConfigKeepsPendingConfig ==
  [][\A s \in SyncSessions :
       (/\ Handles(s)
        /\ Head(send[s]).type = "config"
        /\ storage[s].config # NoFrame
        /\ Head(send[s]).data # Compact(storage[s].config.data)) =>
          storage'[s].config = storage[s].config]_vars

(* ------- SpecJoin: a session that connects while others write ---------- *)
\* s1 (family F) and s3 (family G) are connected and write; s2 (family F)
\* connects at any moment and stays
MaxJoinFrames == 2
Joiner == "s2"

JoinUpsert(s) ==
  /\ s \in PageWriters
  /\ frames < MaxJoinFrames
  /\ \E fr \in PageAdds : ReadEntryUpsert(s, fr)
  /\ UNCHANGED <<heal, clientVars>>

JoinDelete(s) ==
  /\ s \in PageWriters
  /\ frames < MaxJoinFrames
  /\ \E fr \in DeleteFrames : ReadEntryDelete(s, fr)
  /\ UNCHANGED <<heal, clientVars>>

JoinConnect(s) ==
  /\ s = Joiner
  /\ AnyConnect(s)

NextJoin ==
  \E s \in Core :
    \/ AnyRead(s)
    \/ JoinUpsert(s)
    \/ UpsertWrite(s)
    \/ JoinDelete(s)
    \/ DeleteWrite(s)
    \/ SendAck(s)
    \/ BroadcastEntry(s)
    \/ JoinConnect(s)
    \/ SendInitQuery(s)
    \/ SendInitEnqueue(s)

SpecJoin == InitPage /\ [][NextJoin]_vars

\* the mutations of s's family that other sessions have committed: the
\* upserts whose row write has run, and the deletes that found a row of the family
CommittedByOthers(s) ==
  {p \in persisted : /\ p.from # s
                     /\ FamilyOf(p.from) = FamilyOf(s)
                     /\ rows[p.mut.id] # NoRow
                     /\ p.mut.action = "delete" => rows[p.mut.id].family_id = FamilyOf(s)}

\* the handler that committed p has its broadcast still to come
BroadcastToCome(p) ==
  /\ rp[p.from].pc \in {"ack", "bcast"}
  /\ rp[p.from].e.id = p.mut.id

\* a broadcast of p's id by its session was enqueued for s, or some
\* broadcast found the queue of s full
Offered(s, p) ==
  \/ \E b \in bcastLog : b.to = s /\ b.from = p.from /\ b.id = p.mut.id
  \/ heal[s] = "dropped"

\* C35: no committed mutation falls between a session's init snapshot and
\* its live broadcasts: a session is registered from before its init query
\* until its init frame is enqueued; every broadcast is offered to every other
\* registered session of the family (appended, or dropped only because the
\* queue is full); and for every mutation of the family that another session
\* has committed when the init query runs, the init frame carries the row of
\* its id (that mutation or a later one), or its broadcast is still to come,
\* or its broadcast was already offered to the session
C35_NoGapBetweenInitAndBroadcasts ==
  [][\A s \in Core :
       /\ rp'[s].pc \in {"init_query", "init_send"} => InHub(hub', s)
       /\ (rp[s].pc = "bcast" /\ rp'[s].pc = "read") =>
            \A t \in HubClients(hub, FamilyOf(s)) \ {s} :
              \/ send'[t] = Append(send[t], rp[s].out)
              \/ Len(send[t]) >= SendCap /\ send'[t] = send[t]
       /\ (rp[s].pc = "init_query" /\ rp'[s].pc = "init_send") =>
            \A p \in CommittedByOthers(s) :
              \/ \E i \in 1..Len(rp'[s].out.entries) :
                   rp'[s].out.entries[i] = rows[p.mut.id]
              \/ BroadcastToCome(p)
              \/ Offered(s, p)]_vars

(* ---------------- properties of session establishment ----------------- *)
\* C36: session establishment always completes: whatever peers have put in
\* the new session's queue since Register, sendInit's blocking enqueue of the
\* init frame can proceed, so the handler is never waiting on a full queue
\* that no write task is draining
C36_InitEnqueueNeverBlocked ==
  \A s \in Core :
    (rp[s].pc = "init_send" /\ wp[s] # "run") => Len(send[s]) < SendCap

(* ------------------------ properties of presence ---------------------- *)
\* the non-empty labels of the sessions in C
Labels(C) == {l \in {LabelOf(c) : c \in C} : l # ""}

\* C37: after Register(c) and after Unregister(c), every session then in
\* c's family set whose queue has room is enqueued a presence frame whose
\* members are exactly the non-empty labels of the sessions in the set after
\* the change (c included after Register, excluded after Unregister), and
\* the hub never holds a family key with an empty set
C37_PresenceAfterRegisterAndUnregister ==
  [][/\ \A f \in DOMAIN hub' : hub'[f] # {}
     /\ \A c \in Sessions :
          LET f == FamilyOf(c)
              now == HubClients(hub', f)
              msg == [type |-> "presence", members |-> Labels(now)]
          IN /\ (rp[c].pc = "off" /\ rp'[c].pc = "init_query") =>
                  /\ now = HubClients(hub, f) \cup {c}
                  /\ \A t \in now :
                       LET q == IF t = c THEN <<>> ELSE send[t]
                       IN Len(q) < SendCap => send'[t] = Append(q, msg)
             /\ (rp[c].pc = "read" /\ rp'[c].pc = "off") =>
                  /\ now = HubClients(hub, f) \ {c}
                  /\ \A t \in now :
                       Len(send[t]) < SendCap => send'[t] = Append(send[t], msg)]_vars

\* s3, alone in its family, has come and gone and its family key is deleted;
\* s2, whose label is empty, has just registered next to s1 and holds a
\* presence frame that names only s1's label
C37_Witness ==
  /\ sendClosed["s3"]
  /\ "G" \notin DOMAIN hub
  /\ HubClients(hub, "F") = {"s1", "s2"}
  /\ rp["s2"].pc = "init_query"
  /\ send["s2"] = <<[type |-> "presence", members |-> {"mum"}]>>

(* ------- SpecTomb: deletes of an entry that is already deleted --------- *)
\* the browsers of F store entry x, as a tombstone or not, and send deletes
\* for it while its row is a tombstone
MaxTombFrames == 3
TombAdds == {fr \in PageAdds : fr.entry.id = "x"}
TombDeletes == {fr \in DeleteFrames : fr.id = "x"}

\* the row of id is a tombstone of family f
Tombstone(f, id) == rows[id] # NoRow /\ rows[id].family_id = f /\ rows[id].deleted

TombUpsert(s) ==
  /\ frames < MaxTombFrames
  /\ \E fr \in TombAdds : ReadEntryUpsert(s, fr)
  /\ UNCHANGED <<heal, clientVars>>

TombDelete(s) ==
  /\ frames < MaxTombFrames
  /\ Tombstone(FamilyOf(s), "x")
  /\ \E fr \in TombDeletes : ReadEntryDelete(s, fr)
  /\ UNCHANGED <<heal, clientVars>>

NextTomb ==
  \E s \in SyncSessions :
    \/ AnyRead(s)
    \/ TombUpsert(s)
    \/ UpsertWrite(s)
    \/ TombDelete(s)
    \/ DeleteWrite(s)
    \/ SendAck(s)
    \/ BroadcastEntry(s)

SpecTomb == InitRun /\ [][NextTomb]_vars

\* C38: deleting an entry that is already deleted bumps the family seq by
\* exactly 1, and its row write leaves the row deleted with the same value,
\* id and family, and gives it the seq of the bump, greater than the seq the
\* row held before
C38_DeleteOfDeletedAdvancesSeq ==
  [][\A s \in SyncSessions :
       LET f == FamilyOf(s) IN
       /\ (rp[s].pc = "read" /\ rp'[s].pc = "delete_write"
             /\ Tombstone(f, rp'[s].e.id)) =>
            /\ familySeq'[f] = familySeq[f] + 1
            /\ rp'[s].e.seq = familySeq'[f]
            /\ rows' = rows
       /\ (rp[s].pc = "delete_write" /\ rp'[s].pc = "ack"
             /\ Tombstone(f, rp[s].e.id)) =>
            LET old == rows[rp[s].e.id]
                new == rows'[rp[s].e.id]
            IN /\ new.deleted
               /\ new.val = old.val
               /\ new.id = old.id
               /\ new.family_id = old.family_id
               /\ new.seq = rp[s].e.seq
               /\ new.seq > old.seq
               /\ familySeq' = familySeq]_vars

(* ------- SpecLimit: GetEntriesSinceCursor on a large family ------------ *)
\* the numbers of rows a family may have above the cursor, and the limits a
\* sync_request may carry (absent is 0 in the decoded WSMessage)
LargestLimit == 5000
RowCounts == {0, 1, 2, 499, 500, 501, 502, 999, 1000, 1001, 4999, 5000, 5001}
Limits == {-1, 0, 1, 2, 499, 500, 501, 1000, 4999, LargestLimit}

\* GetEntriesSinceCursor when n rows of the family have seq > cursor: the
\* default, LIMIT limit + 1, and the trim to limit
ScanLarge(n, limit) ==
  LET lim == IF limit <= 0 THEN DefaultLimit ELSE limit
      fetched == Min(n, lim + 1)
  IN [n |-> n, limit |-> limit,
      entries |-> IF fetched > lim THEN lim ELSE fetched,
      has_more |-> fetched > lim]

\* handleSyncMessage passes msg.Limit to GetEntriesSinceCursor as it came
ScanCall(n, limit) ==
  /\ scan' = ScanLarge(n, limit)
  /\ UNCHANGED <<storeVars, hubVars, taskVars, histVars, heal, connected, cursor,
                 pending, view, inbox, queued, localOps, pages, browserVars>>

NextLimit == \E n \in RowCounts, limit \in Limits : ScanCall(n, limit)

SpecLimit == Init /\ [][NextLimit]_vars

\* C39: a sync_request without a limit or with limit <= 0 is served with
\* limit 500 (at most 500 entries, has_more when there are more), and the
\* limit is clamped: there is a maximum below the largest limit a client
\* sends such that no sync_response carries more entries than it
C39_LimitDefaultedAndClamped ==
  scan # NoScan =>
    /\ scan.limit <= 0 =>
         /\ scan.entries = Min(scan.n, 500)
         /\ scan.has_more = (scan.n > 500)
    /\ scan.entries < LargestLimit

(* --------- SpecRaw: frames as they come off the connection ------------- *)
\* a text frame: whether json.Unmarshal into WSMessage succeeds, its type and
\* action, and whether json.Unmarshal of its entry field into Entry succeeds
MaxRawFrames == 2
RawFrames == [decodes : BOOLEAN, type : {"entry", "bogus"},
              action : {"add", "update", "delete", "bogus"},
              body : {"ok", "bad"}, id : {"x"}]

\* a dispatch that stores the entry whether or not its body decoded
DispatchAnyBody(fr) ==
  IF ~fr.decodes THEN "ignore"
  ELSE IF fr.type # "entry" THEN "ignore"
  ELSE IF fr.action \in {"add", "update"} THEN "upsert"
  ELSE IF fr.action = "delete" THEN "delete"
  ELSE "ignore"

\* readPump and handleEntryMessage: `continue` on a decode error, the switch
\* on msg.Type, the switch on msg.Action, and `return` when the entry body
\* does not decode; what is left to do for the frame
Dispatch(fr) ==
  IF ~fr.decodes THEN "ignore"
  ELSE IF fr.type # "entry" THEN "ignore"
  ELSE IF fr.action \in {"add", "update"}
       THEN IF fr.body = "ok" THEN "upsert" ELSE "ignore"
  ELSE IF fr.action = "delete" THEN "delete"
  ELSE "ignore"

\* readPump reads frame fr of connection s
ReadRaw(s, fr) ==
  /\ rp[s].pc = "read"
  /\ frames < MaxRawFrames
  /\ CASE Dispatch(fr) = "upsert" ->
            ReadEntryUpsert(s, [type |-> "entry", action |-> fr.action,
                                entry |-> [id |-> fr.id, family_id |-> "-", val |-> "a",
                                           deleted |-> FALSE]])
       [] Dispatch(fr) = "delete" ->
            ReadEntryDelete(s, [type |-> "entry", action |-> "delete", id |-> fr.id])
       [] OTHER ->
            /\ frames' = frames + 1
            /\ UNCHANGED <<storeVars, hubVars, rp, wp, commits, ackLog, bcastLog,
                           connects, persisted>>
  /\ UNCHANGED <<heal, clientVars>>

NextRaw ==
  \E s \in SyncSessions :
    \/ AnyRead(s)
    \/ \E fr \in RawFrames : ReadRaw(s, fr)
    \/ UpsertWrite(s)
    \/ DeleteWrite(s)
    \/ SendAck(s)
    \/ BroadcastEntry(s)

SpecRaw == InitRun /\ [][NextRaw]_vars

\* the frames that are ignored: not decodable, of an unknown type, an entry frame
\* with an unknown action, an add or update whose entry body does not decode
Malformed(fr) ==
  \/ ~fr.decodes
  \/ fr.type \notin {"entry", "sync", "sync_request", "config", "ping"}
  \/ fr.type = "entry" /\ fr.action \notin {"add", "update", "delete"}
  \/ fr.type = "entry" /\ fr.action \in {"add", "update"} /\ fr.body = "bad"

\* C40: reading a frame that cannot be decoded, a frame of an unknown type,
\* an entry frame with an unknown action or an add or update with an
\* undecodable entry body changes neither the store nor the hub, enqueues
\* nothing for any session, and leaves the session registered with its
\* readPump waiting for a frame; and a readPump that waits for a frame can
\* take a well-formed add
C40_MalformedFramesAreIgnored ==
  [][\A s \in SyncSessions :
       /\ \A fr \in RawFrames :
            (Malformed(fr) /\ ReadRaw(s, fr)) =>
              /\ UNCHANGED <<familySeq, rows, configs>>
              /\ UNCHANGED <<hub, send, sendClosed>>
              /\ InHub(hub', s)
              /\ rp'[s].pc = "read"
       /\ (rp[s].pc = "read" /\ frames < MaxRawFrames) =>
            ENABLED (\E g \in RawFrames : ReadRaw(s, g) /\ rp'[s].pc = "upsert_write")]_vars

\* two frames have been read: one was ignored (it took no seq) and the other,
\* an add of s1, was stored and acked, and both readPumps wait for a frame
C40_Witness ==
  /\ frames = 2
  /\ commits["F"] = <<1>>
  /\ rows["x"].seq = 1
  /\ [to |-> "s1", id |-> "x", seq |-> 1] \in ackLog
  /\ rp["s1"] = Idle
  /\ rp["s2"] = Idle
====
